---- MODULE Spec2Model ----
(***************************************************************************)
(* Model of the tool-dispatch protocol of the weather and map agents       *)
(* (weather_agent.py, agent.py), of the batch geocoder                     *)
(* (map_servers/geocoding_server.py), of the routing and POI servers       *)
(* (map_servers/routing_server.py, map_servers/poi_server.py) and of the   *)
(* air-quality server (weather_servers/air_quality_server.py), of the      *)
(* location arguments of the weather servers (forecast_server.py,          *)
(* air_quality_server.py) and of the manual function-calling loop          *)
(* (part2_implementation/gemini_provider.py).  Each subsystem has a        *)
(* specification of its own that leaves the variables of the others        *)
(* unchanged.                                                              *)
(*                                                                         *)
(* Text is modelled as a sequence of tokens.  A token of an LLM completion *)
(* is a record [c, k, v]: c is its class, k its key and v its value.  The  *)
(* classes are the brace characters, the comma, a run of prose, a complete *)
(* member "key": "string", a member key "key": that a value follows, and a *)
(* JSON value that is not an object (a number, a list, null).              *)
(***************************************************************************)
EXTENDS Integers, Sequences, FiniteSets, TLC

\* ------------------------------------------------------------------ bounds
\* longest run of commentary before and after the core of a completion
MaxProse == 1
\* most blanks typed before and after the body of an input line
MaxPad == 1
\* most addresses in one batch_geocode call
MaxAddresses == 3
\* most alternatives a caller of get_route_alternatives asks for
MaxAlternatives == 3
\* largest small limit a caller of a POI search passes
MaxLimit == 2
\* most entries in the list of an air-pollution reply
MaxEntries == 2
\* most function calls in one response of the model
MaxCalls == 2

\* ------------------------------------------------- tokens of a completion
Tok(c, k, v) == [c |-> c, k |-> k, v |-> v]
LB == Tok("{", "", "")
RB == Tok("}", "", "")
CM == Tok(",", "", "")
W == Tok("prose", "", "Sure!")
Pair(k, v) == Tok("pair", k, v)
Key(k) == Tok("key", k, "")
NV == Tok("scalar", "", "42")

\* string values that themselves contain a brace character
BraceStrings == {"a}b", "a{b"}

\* the brace character a token contributes to the character scan
\* ("{" , "}" or "" when it holds none)
BraceOf(tok) ==
    IF tok.c = "{" THEN "{"
    ELSE IF tok.c = "}" THEN "}"
    ELSE IF tok.c = "pair" /\ tok.v = "a}b" THEN "}"
    ELSE IF tok.c = "pair" /\ tok.v = "a{b" THEN "{"
    ELSE ""

\* ----------------------------------------------------------- JSON values
EmptyMap == [x \in {} |-> 0]
StrVal(s) == [t |-> "str", s |-> s, m |-> EmptyMap]
NumVal(s) == [t |-> "num", s |-> s, m |-> EmptyMap]
ObjVal(m) == [t |-> "obj", s |-> "", m |-> m]
NoneVal == [t |-> "none", s |-> "None", m |-> EmptyMap]

\* dict assignment: a repeated key keeps its last value
Put(m, k, v) == [x \in (DOMAIN m) \cup {k} |-> IF x = k THEN v ELSE m[x]]

\* dict.get(key, default)
Get(val, k, default) == IF k \in DOMAIN val.m THEN val.m[k] ELSE default

ParseFail == [ok |-> FALSE, next |-> 0, val |-> NoneVal]
ParseOk(n, v) == [ok |-> TRUE, next |-> n, val |-> v]

\* the element of a one-element set
One(S) == CHOOSE x \in S : TRUE

RECURSIVE ParseValue(_, _)
RECURSIVE ParseMembers(_, _, _)

\* the member "key": value that starts at token i of s
ParseMember(s, i) ==
    IF s[i].c = "pair"
    THEN [ok |-> TRUE, next |-> i + 1, key |-> s[i].k, val |-> StrVal(s[i].v)]
    ELSE IF s[i].c = "key"
    THEN One({[ok |-> r.ok, next |-> r.next, key |-> s[i].k, val |-> r.val] :
              r \in {ParseValue(s, i + 1)}})
    ELSE [ok |-> FALSE, next |-> 0, key |-> "", val |-> NoneVal]

\* the JSON value that starts at token i of s
ParseValue(s, i) ==
    IF i > Len(s) THEN ParseFail
    ELSE IF s[i].c = "scalar" THEN ParseOk(i + 1, NumVal(s[i].v))
    ELSE IF s[i].c = "{" THEN
        IF i + 1 <= Len(s) /\ s[i + 1].c = "}"
        THEN ParseOk(i + 2, ObjVal(EmptyMap))
        ELSE ParseMembers(s, i + 1, EmptyMap)
    ELSE ParseFail

\* the members of an object from token i on, m being the members read so far
ParseMembers(s, i, m) ==
    IF i > Len(s) THEN ParseFail
    ELSE One({ IF ~mem.ok \/ mem.next > Len(s) THEN ParseFail
               ELSE IF s[mem.next].c = "}"
               THEN ParseOk(mem.next + 1, ObjVal(Put(m, mem.key, mem.val)))
               ELSE IF s[mem.next].c = ","
               THEN One({ParseMembers(s, n, m2) :
                         n \in {mem.next + 1}, m2 \in {Put(m, mem.key, mem.val)}})
               ELSE ParseFail
             : mem \in {ParseMember(s, i)} })

\* json.loads(s): the whole text must be one JSON value
json_loads(s) ==
    One({IF r.ok /\ r.next = Len(s) + 1 THEN r ELSE ParseFail :
         r \in {ParseValue(s, 1)}})

\* json.loads(llm_response[start_idx:i+1]) in the recovery scan: a slice
\* that starts or ends at a brace inside a string literal cuts the literal
slice_loads(s, start, i) ==
    IF s[start].c = "{" /\ s[i].c = "}"
    THEN json_loads(SubSeq(s, start, i))
    ELSE ParseFail

ScanEnd == [found |-> FALSE, val |-> NoneVal]

RECURSIVE ScanFrom_restart(_, _, _, _)
\* variant: a candidate that does not parse is given up, and the next '{'
\* starts a new one
ScanFrom_restart(s, i, brace_count, start_idx) ==
    IF i > Len(s) THEN ScanEnd
    ELSE IF BraceOf(s[i]) = "{" THEN
        One({ScanFrom_restart(s, i + 1, c, st) :
             c \in {brace_count + 1},
             st \in {IF start_idx = 0 THEN i ELSE start_idx}})
    ELSE IF BraceOf(s[i]) = "}" THEN
        One({ IF c = 0 /\ start_idx # 0
              THEN One({ IF r.ok THEN [found |-> TRUE, val |-> r.val]
                         ELSE ScanFrom_restart(s, i + 1, 0, 0)
                       : r \in {slice_loads(s, start_idx, i)} })
              ELSE ScanFrom_restart(s, i + 1, c, start_idx)
            : c \in {brace_count - 1} })
    ELSE ScanFrom_restart(s, i + 1, brace_count, start_idx)

RECURSIVE ScanFrom(_, _, _, _)
\* the for loop of the recovery scan at character i, with brace_count and
\* start_idx (0 for None) as the earlier characters left them; found is
\* FALSE when the loop ends without break
ScanFrom(s, i, brace_count, start_idx) ==
    IF i > Len(s) THEN ScanEnd
    ELSE IF BraceOf(s[i]) = "{" THEN
        One({ScanFrom(s, i + 1, c, st) :
             c \in {brace_count + 1},
             st \in {IF start_idx = 0 THEN i ELSE start_idx}})
    ELSE IF BraceOf(s[i]) = "}" THEN
        One({ IF c = 0 /\ start_idx # 0
              THEN One({ IF r.ok THEN [found |-> TRUE, val |-> r.val]
                         ELSE ScanFrom(s, i + 1, c, start_idx)
                       : r \in {slice_loads(s, start_idx, i)} })
              ELSE ScanFrom(s, i + 1, c, start_idx)
            : c \in {brace_count - 1} })
    ELSE ScanFrom(s, i + 1, brace_count, start_idx)

\* the parsing stage: strict parse first, then the scan; ok is FALSE where
\* the code raises json.JSONDecodeError
parse_tool_call(s) ==
    One({ IF whole.ok THEN [ok |-> TRUE, val |-> whole.val]
          ELSE One({[ok |-> sc.found, val |-> sc.val] : sc \in {ScanFrom(s, 1, 0, 0)}})
        : whole \in {json_loads(s)} })

\* ------------------------------------------------------ text as words
\* all sequences over S of length at most n
SeqsUpTo(S, n) == UNION {[1..k -> S] : k \in 0..n}

SP == " "

\* str.lower() of one word
Lower(w) ==
    CASE w = "EXIT" -> "exit"
      [] w = "Exit" -> "exit"
      [] w = "Quit" -> "quit"
      [] w = "QUIT" -> "quit"
      [] w = "BYE" -> "bye"
      [] w = "Bye" -> "bye"
      [] w = "Find" -> "find"
      [] w = "Route" -> "route"
      [] w = "London" -> "london"
      [] w = "Central" -> "central"
      [] w = "Park" -> "park"
      [] w = "Empire" -> "empire"
      [] w = "State" -> "state"
      [] w = "Building" -> "building"
      [] w = "Joe's" -> "joe's"
      [] w = "Pizza" -> "pizza"
      [] w = "The" -> "the"
      [] w = "Metropolitan" -> "metropolitan"
      [] w = "Museum" -> "museum"
      [] w = "Art" -> "art"
      [] w = "Starbucks" -> "starbucks"
      [] w = "Reserve" -> "reserve"
      [] w = "Roastery" -> "roastery"
      [] w = "Times" -> "times"
      [] w = "Square" -> "square"
      [] w = "Brooklyn" -> "brooklyn"
      [] w = "Bridge" -> "bridge"
      [] w = "Grand" -> "grand"
      [] w = "Terminal" -> "terminal"
      [] w = "Iconic" -> "iconic"
      [] w = "Deco" -> "deco"
      [] w = "Classic" -> "classic"
      [] w = "New" -> "new"
      [] w = "York-style" -> "york-style"
      [] w = "One" -> "one"
      [] w = "Upscale" -> "upscale"
      [] w = "Broadway" -> "broadway"
      [] w = "Waterfront" -> "waterfront"
      [] w = "Manhattan" -> "manhattan"
      [] w = "Historic" -> "historic"
      [] w = "PARK" -> "park"
      [] OTHER -> w

\* str.lower() of a text
lower(text) == [i \in 1..Len(text) |-> Lower(text[i])]

RECURSIVE lstrip(_)
lstrip(text) ==
    IF text # <<>> /\ Head(text) = SP THEN lstrip(Tail(text)) ELSE text

RECURSIVE rstrip(_)
rstrip(text) ==
    IF text # <<>> /\ text[Len(text)] = SP
    THEN rstrip(SubSeq(text, 1, Len(text) - 1))
    ELSE text

\* str.strip(): blanks removed at both ends
strip(text) == rstrip(lstrip(text))

\* the words that read as numbers
NumericWords == {"25", "15.2", "60", "2", "8.1", "99"}

\* the numeric values that occur in a text
Numbers(text) == {text[i] : i \in {j \in 1..Len(text) : text[j] \in NumericWords}}

\* sub occurs in text as a contiguous run
Contains(text, sub) ==
    \E i \in 0..(Len(text) - Len(sub)) : SubSeq(text, i + 1, i + Len(sub)) = sub

\* ------------------------------------------------------- input lines
ExitWords == {"exit", "quit", "bye"}

Bodies ==
    { <<>>,
      <<"exit">>, <<"EXIT">>, <<"Quit">>, <<"Bye">>,
      <<"exit", SP, "now">>,
      <<"weather", SP, "in", SP, "London">>,
      <<"above", SP, "25", SP, "in", SP, "London">>,
      <<"Find", SP, "restaurant", SP, "nearby">>,
      <<"Route", SP, "to", SP, "park">>,
      <<"geocode", SP, "40.7484">>,
      <<"geocode", SP, "London">>,
      <<"search", SP, "pizza">> }

Pads == SeqsUpTo({SP}, MaxPad)

\* what input() may return
Lines == {l \o b \o r : l \in Pads, b \in Bodies, r \in Pads}

\* ------------------------------------------------------ tool registries
\* WeatherServicesAgent.tool_functions
tool_functions ==
    {"get_current_weather", "get_forecast", "get_daily_summary",
     "get_air_quality", "get_pollution_forecast"}

\* MapServicesAgent.tools
tools ==
    {"geocode_address", "reverse_geocode_coordinates",
     "calculate_route_between_points", "get_distance_matrix",
     "find_nearby_places", "search_places_by_text", "get_place_info"}

\* the keyword parameters a weather tool function accepts
Signature(tool) ==
    IF tool = "get_pollution_forecast"
    THEN {"location", "latitude", "longitude", "hours"}
    ELSE {"location", "latitude", "longitude"}

\* what a tool may return: the text of a dict of readings
Results ==
    { <<"temperature", "15.2", "humidity", "60">>,
      <<"aqi", "2", "pm2_5", "8.1">> }

\* what a tool may raise: the exception class and str(e)
Err(type, msg) == [type |-> type, msg |-> msg]
NoError == Err("", <<>>)
MissingLocation ==
    Err("ValueError", <<"Either location or (latitude, longitude) must be provided">>)
\* what a server's or the agent's __init__ raises when its key is not set
MissingKey(key) == Err("ValueError", <<key, "is required">>)
ToolErrors ==
    { Err("Exception", <<"API request failed: 404 - city not found">>),
      Err("JSONDecodeError", <<"Expecting value: line 1 column 1 (char 0)">>) }

\* what a chat completion call may raise
LLMErrors == { Err("APIError", <<"Connection error.">>) }

\* --------------------------------------------- completions the LLM gives
London == Pair("location", "London")
Decision(tool, member) ==
    <<LB, Pair("tool", tool), CM, Key("parameters"), LB, member, RB, RB>>

Cores ==
    { <<>>,
      Decision("get_current_weather", London),
      Decision("get_air_quality", London),
      Decision("get_current_weather", Pair("location", "a}b")),
      Decision("get_air_quality", Pair("location", "a{b")),
      Decision("get_current_weather", Pair("note", "x")),
      Decision("make_coffee", London),
      <<LB, Key("parameters"), LB, London, RB, RB>>,
      <<LB, Pair("tool", "get_forecast"), RB>>,
      <<LB, Pair("tool", "a}b"), CM, Pair("note", "a{b"), RB>>,
      <<LB, Pair("tool", "get_forecast"), CM, Key("parameters"), NV, RB>>,
      <<LB, Key("tool"), LB, RB, RB>>,
      <<LB, Key("tool"), NV, RB>>,
      <<LB, Pair("tool", "get_forecast")>>,
      <<NV>> }

ProseRuns == SeqsUpTo({W, LB, RB}, MaxProse)

\* message.content of the tool-selection completion, when it is a string
Completions == {p \o c \o q : p \in ProseRuns, c \in Cores, q \in ProseRuns}

Content(text) == [none |-> FALSE, text |-> text]
NoContent == [none |-> TRUE, text |-> <<>>]

\* ----------------------------------------------------------- messages
RephraseMsg ==
    <<"I had trouble understanding the request. Could you please rephrase your question about weather or air quality?">>
UnknownToolMsg(name) == <<"Unknown tool:", name.s>>
\* variant: the cause is left out of the message
SorryMsg_nocause(e) == <<"Sorry, I encountered an error:">>
SorryMsg(e) == <<"Sorry, I encountered an error:">> \o e.msg
HelpMsg == <<"I can help you with: 1. Geocoding 2. Routing 3. Places">>

SystemFormatMsg ==
    <<"You are a helpful weather assistant. Format the following weather data ... Only use the exact data provided">>

\* variant: the data is summarised instead of embedded as returned
FormatPrompt_nodata(query, tool, data) ==
    <<SystemFormatMsg,
      <<"User asked:">> \o query \o <<"Tool used:", tool, "Data received from API:">>
        \o SubSeq(data, 1, Len(data) - 1)
        \o <<"Provide a natural response using ONLY this data:">> >>

\* format_messages: the system and the user message of the formatting call
FormatPrompt(query, tool, data) ==
    <<SystemFormatMsg,
      <<"User asked:">> \o query \o <<"Tool used:", tool, "Data received from API:">>
        \o data \o <<"Provide a natural response using ONLY this data:">> >>

\* a stub model that echoes its input: the contents of the messages in order
Echo(messages) == messages[1] \o messages[2]

\* message.content of the formatting completion
FormatCompletions(messages) ==
    { Echo(messages),
      <<"It", "is", "15.2", "degrees">>,
      <<"It", "is", "99", "degrees">> }

\* ------------------------------------------ map agent keyword dispatch
\* the keywords of _simulate_agent_response that occur inside a word
KeywordsIn(w) ==
    CASE w = "40.7484" -> {"40."}
      [] w \in {"geocode", "coordinates", "address", "route", "direction",
                "distance", "find", "nearby", "restaurant", "cafe", "coffee",
                "hotel", "museum", "park", "search", "place"} -> {w}
      [] OTHER -> {}

\* keyword in query_lower
Mentions(query_lower, keyword) ==
    \E i \in 1..Len(query_lower) : keyword \in KeywordsIn(query_lower[i])

MentionsAny(query_lower, keywords) ==
    \E k \in keywords : Mentions(query_lower, k)

\* the tool _simulate_agent_response calls for a query, its category
\* argument, and the text that introduces the result ("" when no tool)
simulate_dispatch(query) ==
    LET q == lower(query)
        category == IF Mentions(q, "restaurant") THEN StrVal("restaurant")
                    ELSE IF MentionsAny(q, {"cafe", "coffee"}) THEN StrVal("cafe")
                    ELSE IF Mentions(q, "museum") THEN StrVal("museum")
                    ELSE IF Mentions(q, "park") THEN StrVal("park")
                    ELSE NoneVal
    IN IF MentionsAny(q, {"geocode", "coordinates", "address"}) THEN
            IF MentionsAny(q, {"40.", "41.", "-73", "-74"})
            THEN [tool |-> "reverse_geocode_coordinates", args |-> ObjVal(EmptyMap),
                  intro |-> "Based on those coordinates, here's what I found:"]
            ELSE [tool |-> "geocode_address", args |-> ObjVal(EmptyMap),
                  intro |-> "Here are the coordinates I found:"]
       ELSE IF MentionsAny(q, {"route", "direction", "distance"}) THEN
            [tool |-> "calculate_route_between_points", args |-> ObjVal(EmptyMap),
             intro |-> "Here's the route information:"]
       ELSE IF MentionsAny(q, {"find", "nearby", "restaurant", "cafe", "hotel", "museum"}) THEN
            [tool |-> "find_nearby_places",
             args |-> ObjVal(Put(EmptyMap, "category", category)),
             intro |-> "Here are nearby places I found:"]
       ELSE IF MentionsAny(q, {"search", "place"}) THEN
            [tool |-> "search_places_by_text", args |-> ObjVal(EmptyMap),
             intro |-> "Here's what I found:"]
       ELSE [tool |-> "", args |-> ObjVal(EmptyMap), intro |-> ""]

\* ------------------------------------------- process_query, weather agent
\* variant: the generic clause comes first and takes every exception
except_clauses_generic(e) ==
    [exit |-> "error", response |-> Content(SorryMsg(e))]

\* the except clauses of process_query: what it returns for an exception
except_clauses(e) ==
    IF e.type = "JSONDecodeError"
    THEN [exit |-> "rephrase", response |-> Content(RephraseMsg)]
    ELSE [exit |-> "error", response |-> Content(SorryMsg(e))]

\* lines 135-170: the decision read from the completion; next is "invoke"
\* when a registered tool was selected, else "return" with the response
DecisionFail(e) ==
    [next |-> "return", tool_name |-> NoneVal, parameters |-> NoneVal,
     exit |-> except_clauses(e).exit, response |-> except_clauses(e).response]

\* variant: tool_call["tool"], which raises KeyError when the key is missing
lookup_tool_keyerror(tool_call) ==
    IF tool_call.t # "obj"
    THEN DecisionFail(Err("AttributeError", <<"object has no attribute 'get'">>))
    ELSE IF "tool" \notin DOMAIN tool_call.m
    THEN DecisionFail(Err("KeyError", <<"'tool'">>))
    ELSE One({ IF tn.t = "obj"
               THEN DecisionFail(Err("TypeError", <<"unhashable type: 'dict'">>))
               ELSE IF ~(tn.t = "str" /\ tn.s \in tool_functions)
               THEN [next |-> "return", tool_name |-> tn, parameters |-> ps,
                     exit |-> "unknown_tool", response |-> Content(UnknownToolMsg(tn))]
               ELSE [next |-> "invoke", tool_name |-> tn, parameters |-> ps,
                     exit |-> "", response |-> NoContent]
             : tn \in {Get(tool_call, "tool", NoneVal)},
               ps \in {Get(tool_call, "parameters", ObjVal(EmptyMap))} })

\* variant: the registry is not consulted before the call
lookup_tool_unchecked(tool_call) ==
    IF tool_call.t # "obj"
    THEN DecisionFail(Err("AttributeError", <<"object has no attribute 'get'">>))
    ELSE One({ IF tn.t = "obj"
               THEN DecisionFail(Err("TypeError", <<"unhashable type: 'dict'">>))
               ELSE [next |-> "invoke", tool_name |-> tn, parameters |-> ps,
                     exit |-> "", response |-> NoContent]
             : tn \in {Get(tool_call, "tool", NoneVal)},
               ps \in {Get(tool_call, "parameters", ObjVal(EmptyMap))} })

\* lines 162-170: tool_call.get("tool"), tool_call.get("parameters", {})
\* and the registry lookup
lookup_tool(tool_call) ==
    IF tool_call.t # "obj"
    THEN DecisionFail(Err("AttributeError", <<"object has no attribute 'get'">>))
    ELSE One({ IF tn.t = "obj"
               THEN DecisionFail(Err("TypeError", <<"unhashable type: 'dict'">>))
               ELSE IF ~(tn.t = "str" /\ tn.s \in tool_functions)
               THEN [next |-> "return", tool_name |-> tn, parameters |-> ps,
                     exit |-> "unknown_tool", response |-> Content(UnknownToolMsg(tn))]
               ELSE [next |-> "invoke", tool_name |-> tn, parameters |-> ps,
                     exit |-> "", response |-> NoContent]
             : tn \in {Get(tool_call, "tool", NoneVal)},
               ps \in {Get(tool_call, "parameters", ObjVal(EmptyMap))} })

parse_decision(content) ==
    IF content.none
    THEN DecisionFail(Err("AttributeError", <<"'NoneType' object has no attribute 'strip'">>))
    ELSE One({ IF ~p.ok
               THEN DecisionFail(Err("JSONDecodeError", <<"No valid JSON found">>))
               ELSE lookup_tool(p.val)
             : p \in {parse_tool_call(content.text)} })

\* the environment the agent and the servers are constructed in
VARIABLES
    environ,            \* os.environ: the API keys that are set
    constructed,        \* WeatherServicesAgent.__init__ has returned
    construct_raised    \* what __init__ raised

\* what calling the tool function with **parameters may do: the errors it
\* may raise and the results it may return
tool_outcomes(tool, params) ==
    IF ~(DOMAIN params.m \subseteq Signature(tool))
    THEN [errors |-> {Err("TypeError", <<tool, "() got an unexpected keyword argument">>)},
          results |-> {}]
    ELSE IF "OPENWEATHER_API_KEY" \notin environ
    THEN [errors |-> {MissingKey("OPENWEATHER_API_KEY")}, results |-> {}]
    ELSE IF "location" \notin DOMAIN params.m
            /\ ~({"latitude", "longitude"} \subseteq DOMAIN params.m)
    THEN [errors |-> {MissingLocation}, results |-> {}]
    ELSE [errors |-> ToolErrors, results |-> Results]

\* ------------------------------------------------------------- state
VARIABLES
    agent,            \* "weather" (WeatherServicesAgent) or "map" (MapServicesAgent)
    session_pc,       \* interactive_session: "input", "in_query" or "ended"
    line,             \* what input() last returned
    user_input,       \* line.strip()
    last_event,       \* what the last pass of the session loop did
    session_raised,   \* interactive_session let an exception propagate
    stdin,            \* the input stream: "open" or "exhausted"
    pc,               \* process_query: "idle", "select", "parse", "invoke",
                      \* "format", "simulate" or "return"
    user_query,       \* its argument
    llm_response,     \* content of the tool-selection completion
    tool_name,        \* tool_call.get("tool")
    parameters,       \* tool_call.get("parameters", {})
    result,           \* what the tool returned
    tool_error,       \* what the tool raised
    format_messages,  \* the messages of the formatting call
    response,         \* what process_query returns
    raised,           \* what process_query raises
    exit_path,        \* the return statement or except clause it left by
    trace,            \* the LLM calls and tool invocations of this cycle
    invocations       \* the tool calls of this cycle: name and arguments

VARIABLES
    addresses,          \* argument of batch_geocode
    batch_pc,           \* batch_geocode: "idle", "gather" or "returned"
    lookups,            \* the forward_geocode call of each address, by index
    completion_order,   \* task indexes in the order the lookups finished
    processed_results,  \* what batch_geocode returns
    session,            \* GeocodingServer.session: "none" or "client"
    clients_created,    \* httpx.AsyncClient objects created since close()
    closed              \* close() has released a client of this server

VARIABLES
    route_call,         \* the routing operation in progress and its arguments
    route_pc,           \* "idle", "entered", "session", "close" or "left"
    route_session,      \* RoutingServer.session: "none" or "client"
    routes,             \* the RouteResult objects the operation built
    route_raised        \* what the operation raised

VARIABLES
    database,           \* POIServer._mock_pois: the stored records
    poi_call,           \* the last POIServer query and its arguments
    poi_results         \* what it returned

VARIABLES
    air_call,           \* the air-quality operation in progress
    air_pc,             \* "idle", "requested" or "left"
    air_data,           \* the "list" of the API's reply: one aqi per entry
    air_result,         \* the AirQuality / AirQualityForecast objects built
    air_output          \* the entries a tool function formatted

VARIABLES
    wx_call,            \* a weather or air-quality operation and its arguments
    wx_pc,              \* "idle", "entered", "geocoding", "requested", "close"
                        \* or "left"
    wx_session,         \* the server's session: "none" or "client"
    wx_requests,        \* the HTTP requests the operation has sent
    wx_raised           \* what the operation raised

VARIABLES
    gm_pc,              \* run_with_manual_tools: "start", "loop", "send",
                        \* "return", "returned" or "raised"
    iteration,          \* its loop counter
    function_calls,     \* the function calls of the model's last response
    messages_sent,      \* the chat.send_message calls made so far
    requested,          \* the function calls this round works through
    function_responses  \* the responses it has built for them

cycleVars == <<pc, user_query, llm_response, tool_name, parameters, result,
               tool_error, format_messages, response, raised, exit_path,
               trace, invocations>>
sessionVars == <<agent, session_pc, line, user_input, last_event, session_raised,
                 stdin>>
agentVars == <<sessionVars, cycleVars>>
batchVars == <<addresses, batch_pc, lookups, completion_order,
               processed_results, session, clients_created, closed>>
configVars == <<environ, constructed, construct_raised>>
routeVars == <<route_call, route_pc, route_session, routes, route_raised>>
poiVars == <<database, poi_call, poi_results>>
airVars == <<air_call, air_pc, air_data, air_result, air_output>>
wxVars == <<wx_call, wx_pc, wx_session, wx_requests, wx_raised>>
gmVars == <<gm_pc, iteration, function_calls, messages_sent, requested,
            function_responses>>
nonAgentVars == <<batchVars, routeVars, poiVars, airVars, wxVars, gmVars>>
nonBatchVars == <<agentVars, configVars, routeVars, poiVars, airVars, wxVars, gmVars>>
nonRouteVars == <<agentVars, configVars, batchVars, poiVars, airVars, wxVars, gmVars>>
nonPOIVars == <<agentVars, configVars, batchVars, routeVars, airVars, wxVars, gmVars>>
nonAirVars == <<agentVars, configVars, batchVars, routeVars, poiVars, wxVars, gmVars>>
nonWxVars == <<agentVars, configVars, batchVars, routeVars, poiVars, airVars, gmVars>>
nonGmVars == <<agentVars, configVars, batchVars, routeVars, poiVars, airVars, wxVars>>
vars == <<agentVars, configVars, batchVars, routeVars, poiVars, airVars, wxVars, gmVars>>

\* ------------------------------------------------- the POI database
\* Python's None where a number may stand
None == -999999999

\* float('inf') as a sort key
Inf == 999999999

\* category=None
NoCategory == "<None>"

POIResult(name, category, lat, lon, rating, price_level, description) ==
    [name |-> name, category |-> category, latitude |-> lat, longitude |-> lon,
     rating |-> rating, price_level |-> price_level, description |-> description,
     distance_meters |-> None]

\* _initialize_mock_pois: the database, a rating in tenths, a text as its
\* words
mock_pois ==
    << POIResult(<<"Central", "Park">>, "park", 407829, -739654, 48, None,
                 <<"Iconic", "urban", "park", "with", "lakes,", "theaters,",
                   "playgrounds,", "and", "more">>),
       POIResult(<<"Empire", "State", "Building">>, "landmark", 407484, -739857, 47, 3,
                 <<"Iconic", "Art", "Deco", "skyscraper", "with", "observation",
                   "decks">>),
       POIResult(<<"Joe's", "Pizza">>, "restaurant", 407308, -740023, 45, 1,
                 <<"Classic", "New", "York-style", "pizza", "joint">>),
       POIResult(<<"The", "Metropolitan", "Museum", "of", "Art">>, "museum",
                 407794, -739632, 48, 2,
                 <<"One", "of", "the", "world's", "largest", "and", "finest",
                   "art", "museums">>),
       POIResult(<<"Starbucks", "Reserve", "Roastery">>, "cafe", 407411, -739897, 46, 3,
                 <<"Upscale", "coffee", "experience", "with", "rare", "roasts">>),
       POIResult(<<"Times", "Square">>, "landmark", 407580, -739855, 44, None,
                 <<"Iconic", "intersection", "known", "for", "bright", "lights",
                   "and", "Broadway", "theaters">>),
       POIResult(<<"Brooklyn", "Bridge", "Park">>, "park", 407009, -739969, 47, None,
                 <<"Waterfront", "park", "with", "stunning", "Manhattan", "skyline",
                   "views">>),
       POIResult(<<"Grand", "Central", "Terminal">>, "transit_station",
                 407527, -739772, 46, None,
                 <<"Historic", "train", "station", "and", "architectural",
                   "landmark">>) >>

\* ----------------------------------------------------- initial states
\* an agent right after construction, before interactive_session reads
InitAgent ==
    /\ agent \in {"weather", "map"}
    /\ session_pc = "input"
    /\ line = <<>>
    /\ user_input = <<>>
    /\ last_event = "start"
    /\ session_raised = FALSE
    /\ stdin = "open"
    /\ pc = "idle"
    /\ user_query = <<>>
    /\ llm_response = NoContent
    /\ tool_name = NoneVal
    /\ parameters = NoneVal
    /\ result = <<>>
    /\ tool_error = NoError
    /\ format_messages = <<>>
    /\ response = NoContent
    /\ raised = NoError
    /\ exit_path = ""
    /\ trace = <<>>
    /\ invocations = <<>>

\* a GeocodingServer right after __init__
InitBatch ==
    /\ addresses = <<>>
    /\ batch_pc = "idle"
    /\ lookups = <<>>
    /\ completion_order = <<>>
    /\ processed_results = <<>>
    /\ session = "none"
    /\ clients_created = 0
    /\ closed = FALSE

\* the API keys the servers and the agent read from the environment
Keys == {"OPENROUTER_API_KEY", "OPENWEATHER_API_KEY"}

\* a WeatherServicesAgent that __init__ has built, every key being set
Constructed ==
    /\ environ = Keys
    /\ constructed = TRUE
    /\ construct_raised = NoError

\* a RoutingServer right after __init__
InitRoute ==
    /\ route_call = [op |-> "", trip |-> <<>>, mode |-> "", alternatives |-> 0]
    /\ route_pc = "idle"
    /\ route_session = "none"
    /\ routes = <<>>
    /\ route_raised = NoError

\* a POIServer right after __init__
InitPOI ==
    /\ database = mock_pois
    /\ poi_call = [op |-> ""]
    /\ poi_results = <<>>

\* an AirQualityServer right after __init__
InitAir ==
    /\ air_call = [op |-> ""]
    /\ air_pc = "idle"
    /\ air_data = <<>>
    /\ air_result = <<>>
    /\ air_output = <<>>

\* location=None
NoLocation == "<None>"

\* a WeatherForecastServer or AirQualityServer right after __init__
InitWx ==
    /\ wx_call = [op |-> ""]
    /\ wx_pc = "idle"
    /\ wx_session = "none"
    /\ wx_requests = <<>>
    /\ wx_raised = NoError

\* run_with_manual_tools before its first statement
InitGm ==
    /\ gm_pc = "start"
    /\ iteration = 0
    /\ function_calls = <<>>
    /\ messages_sent = 0
    /\ requested = <<>>
    /\ function_responses = <<>>

\* the servers, none of them in use
InitServers == InitBatch /\ InitRoute /\ InitPOI /\ InitAir /\ InitWx /\ InitGm

\* ------------------------------------------------ interactive_session
\* the list the lowered input is looked up in
ExitList == {<<"exit">>, <<"quit">>, <<"bye">>}

\* variant: the input is compared without lower()
classify_input_nolower(stripped) ==
    IF stripped \in ExitList THEN "exit"
    ELSE IF stripped = <<>> THEN "blank"
    ELSE "query"

\* what the loop does with a line: "exit", "blank" or "query"
classify_input(stripped) ==
    IF lower(stripped) \in ExitList THEN "exit"
    ELSE IF stripped = <<>> THEN "blank"
    ELSE "query"

\* variant: every exception leaves the loop
session_except_break(type) == [next |-> "ended", propagates |-> FALSE]

\* variant: end of input leaves the loop, as a keyboard interrupt does
session_except_eof(type) ==
    IF type \in {"KeyboardInterrupt", "EOFError"}
    THEN [next |-> "ended", propagates |-> FALSE]
    ELSE [next |-> "input", propagates |-> FALSE]

\* the except clauses of the loop: where an exception of that class leads
session_except(type) ==
    IF type = "KeyboardInterrupt"
    THEN [next |-> "ended", propagates |-> FALSE]
    ELSE [next |-> "input", propagates |-> FALSE]

\* the locals of process_query before its first statement and after it is left
ResetLocals ==
    /\ llm_response' = NoContent
    /\ tool_name' = NoneVal
    /\ parameters' = NoneVal
    /\ result' = <<>>
    /\ tool_error' = NoError
    /\ format_messages' = <<>>
    /\ response' = NoContent
    /\ raised' = NoError
    /\ exit_path' = ""
    /\ trace' = <<>>
    /\ invocations' = <<>>

\* input() returns a line: exit word, blank line, or a call of process_query
ReadLine ==
    /\ constructed
    /\ session_pc = "input"
    /\ stdin = "open"
    /\ \E l \in Lines :
        /\ line' = l
        /\ user_input' = strip(l)
        /\ LET what == classify_input(strip(l))
           IN IF what = "exit"
              THEN /\ session_pc' = "ended"
                   /\ last_event' = "exit_command"
                   /\ UNCHANGED cycleVars
              ELSE IF what = "blank"
              THEN /\ session_pc' = "input"
                   /\ last_event' = "blank"
                   /\ UNCHANGED cycleVars
              ELSE /\ session_pc' = "in_query"
                   /\ last_event' = "query"
                   /\ pc' = IF agent = "weather" THEN "select" ELSE "simulate"
                   /\ user_query' = strip(l)
                   /\ ResetLocals
    /\ UNCHANGED <<agent, session_raised, stdin, configVars, nonAgentVars>>

\* input() raises an exception that is not a keyboard interrupt (EOFError)
ReadError ==
    /\ constructed
    /\ session_pc = "input"
    /\ LET h == session_except("EOFError")
       IN /\ session_pc' = h.next
          /\ session_raised' = h.propagates
    /\ last_event' = "read_error"
    /\ UNCHANGED <<agent, line, user_input, stdin, cycleVars, configVars, nonAgentVars>>

\* input() finds the stream at its end, now or as before, and raises
\* EOFError
EndOfInput ==
    /\ constructed
    /\ session_pc = "input"
    /\ stdin' = "exhausted"
    /\ LET h == session_except("EOFError")
       IN /\ session_pc' = h.next
          /\ session_raised' = h.propagates
    /\ last_event' = "read_error"
    /\ UNCHANGED <<agent, line, user_input, cycleVars, configVars, nonAgentVars>>

\* Ctrl-C while input() waits or while process_query runs
Interrupt ==
    /\ constructed
    /\ \/ session_pc = "input"
       \/ session_pc = "in_query" /\ pc \in {"select", "parse", "invoke", "format", "simulate"}
    /\ LET h == session_except("KeyboardInterrupt")
       IN /\ session_pc' = h.next
          /\ session_raised' = h.propagates
    /\ last_event' = "keyboard_interrupt"
    /\ pc' = "idle"
    /\ user_query' = <<>>
    /\ ResetLocals
    /\ UNCHANGED <<agent, line, user_input, stdin, configVars, nonAgentVars>>

\* process_query is back: print the response, or handle what it raised
Deliver ==
    /\ session_pc = "in_query"
    /\ pc = "return"
    /\ pc' = "idle"
    /\ IF raised = NoError
       THEN /\ session_pc' = "input"
            /\ last_event' = "response"
            /\ UNCHANGED session_raised
       ELSE LET h == session_except(raised.type)
            IN /\ session_pc' = h.next
               /\ last_event' = "query_error"
               /\ session_raised' = h.propagates
    /\ user_query' = <<>>
    /\ ResetLocals
    /\ UNCHANGED <<agent, line, user_input, stdin, configVars, nonAgentVars>>

\* ------------------------------------------- process_query, the steps
\* process_query leaves through an except clause with exception e
Leave(e) ==
    /\ pc' = "return"
    /\ exit_path' = except_clauses(e).exit
    /\ response' = except_clauses(e).response

\* variant: a failed completion call is tried again
SelectTool_retry ==
    /\ agent = "weather"
    /\ pc = "select"
    /\ Len(trace) < 3
    /\ trace' = Append(trace, "llm")
    /\ \/ \E text \in Completions :
            /\ llm_response' = Content(text)
            /\ pc' = "parse"
       \/ /\ llm_response' = NoContent
          /\ pc' = "parse"
       \/ /\ pc' = "select"
          /\ UNCHANGED llm_response
    /\ UNCHANGED <<sessionVars, user_query, tool_name, parameters, result,
                   tool_error, format_messages, raised, invocations, configVars, nonAgentVars,
                   exit_path, response>>

\* step 1: the tool-selection completion call
SelectTool ==
    /\ agent = "weather"
    /\ pc = "select"
    /\ trace' = Append(trace, "llm")
    /\ \/ \E text \in Completions :
            /\ llm_response' = Content(text)
            /\ pc' = "parse"
            /\ UNCHANGED <<exit_path, response>>
       \/ /\ llm_response' = NoContent
          /\ pc' = "parse"
          /\ UNCHANGED <<exit_path, response>>
       \/ \E e \in LLMErrors :
            /\ Leave(e)
            /\ UNCHANGED llm_response
    /\ UNCHANGED <<sessionVars, user_query, tool_name, parameters, result,
                   tool_error, format_messages, raised, invocations, configVars, nonAgentVars>>

\* lines 135-170: parse the decision and look the tool up
ParseDecision ==
    /\ agent = "weather"
    /\ pc = "parse"
    /\ \E d \in {parse_decision(llm_response)} :
          /\ pc' = d.next
          /\ tool_name' = d.tool_name
          /\ parameters' = d.parameters
          /\ exit_path' = d.exit
          /\ response' = d.response
    /\ UNCHANGED <<sessionVars, user_query, llm_response, result, tool_error,
                   format_messages, raised, trace, invocations, configVars, nonAgentVars>>

\* step 2: await self.tool_functions[tool_name](**parameters)
InvokeTool ==
    /\ agent = "weather"
    /\ pc = "invoke"
    /\ IF parameters.t # "obj"
       THEN /\ Leave(Err("TypeError",
                         <<tool_name.s, "() argument after ** must be a mapping">>))
            /\ UNCHANGED <<result, tool_error, trace, invocations>>
       ELSE /\ trace' = Append(trace, "tool")
            /\ invocations' = Append(invocations,
                                     [tool |-> tool_name.s, args |-> parameters])
            /\ LET o == tool_outcomes(tool_name.s, parameters)
               IN \/ \E r \in o.results :
                        /\ result' = r
                        /\ pc' = "format"
                        /\ UNCHANGED <<tool_error, exit_path, response>>
                  \/ \E e \in o.errors :
                        /\ tool_error' = e
                        /\ Leave(e)
                        /\ UNCHANGED result
    /\ UNCHANGED <<sessionVars, user_query, llm_response, tool_name, parameters,
                   format_messages, raised, configVars, nonAgentVars>>

\* step 3: the formatting completion call and the return of its content
FormatResponse ==
    /\ agent = "weather"
    /\ pc = "format"
    /\ trace' = Append(trace, "llm")
    /\ format_messages' = FormatPrompt(user_query, tool_name.s, result)
    /\ \/ \E text \in FormatCompletions(format_messages') :
            /\ response' = Content(text)
            /\ exit_path' = "formatted"
            /\ pc' = "return"
       \/ /\ response' = NoContent
          /\ exit_path' = "formatted"
          /\ pc' = "return"
       \/ \E e \in LLMErrors : Leave(e)
    /\ UNCHANGED <<sessionVars, user_query, llm_response, tool_name, parameters,
                   result, tool_error, raised, invocations, configVars, nonAgentVars>>

\* MapServicesAgent.process_query: the keyword dispatcher and its tool call
SimulateAgentResponse ==
    /\ agent = "map"
    /\ pc = "simulate"
    /\ pc' = "return"
    /\ LET d == simulate_dispatch(user_query)
       IN IF d.tool = ""
          THEN /\ response' = Content(HelpMsg)
               /\ exit_path' = "help"
               /\ UNCHANGED <<result, tool_error, raised, trace, invocations>>
          ELSE /\ trace' = Append(trace, "tool")
               /\ invocations' = Append(invocations, [tool |-> d.tool, args |-> d.args])
               /\ \/ \E r \in Results :
                        /\ result' = r
                        /\ response' = Content(<<d.intro>> \o r)
                        /\ exit_path' = "simulated"
                        /\ UNCHANGED <<tool_error, raised>>
                  \/ \E e \in ToolErrors :
                        /\ tool_error' = e
                        /\ raised' = e
                        /\ exit_path' = "raised"
                        /\ UNCHANGED <<result, response>>
    /\ UNCHANGED <<sessionVars, user_query, llm_response, tool_name, parameters,
                   format_messages, configVars, nonAgentVars>>

NextAgent ==
    \/ ReadLine
    \/ ReadError
    \/ EndOfInput
    \/ Interrupt
    \/ Deliver
    \/ SelectTool
    \/ ParseDecision
    \/ InvokeTool
    \/ FormatResponse
    \/ SimulateAgentResponse

\* the agents: interactive_session driving process_query
Init == InitAgent /\ Constructed /\ InitServers

Spec == Init /\ [][NextAgent]_vars

\* ------------------------------------------------- agent construction
\* __init__ of the agent: WeatherServicesAgent raises when its LLM key is
\* not set (lines 39-44); MapServicesAgent tests no key
Construct ==
    /\ ~constructed
    /\ construct_raised = NoError
    /\ IF agent = "weather" /\ "OPENROUTER_API_KEY" \notin environ
       THEN /\ construct_raised' = MissingKey("OPENROUTER_API_KEY")
            /\ UNCHANGED constructed
       ELSE /\ constructed' = TRUE
            /\ UNCHANGED construct_raised
    /\ UNCHANGED <<environ, agentVars, nonAgentVars>>

NextConfig ==
    \/ Construct
    \/ NextAgent

\* an agent about to be constructed, in an environment of any keys
InitConfig ==
    /\ InitAgent
    /\ environ \in SUBSET Keys
    /\ constructed = FALSE
    /\ construct_raised = NoError
    /\ InitServers

SpecConfig == InitConfig /\ [][NextConfig]_vars

\* ------------------------------------------------------ batch_geocode
\* the addresses a caller may pass
Addrs == {"Empire State Building", "Nowhere"}

\* the GeocodingResult forward_geocode builds from its mock data
GeocodingResult(address) ==
    [address |-> <<address, "(simulated)">>, latitude |-> "40.7484",
     longitude |-> "-73.9857", confidence |-> "0.9"]

\* a forward_geocode call: "created", "requesting" (it holds the session
\* and waits for the reply), "returned" or "raised", and what it returned
Lookup(state, value) == [state |-> state, value |-> value]

Finished(l) == l.state \in {"returned", "raised"}

\* variant: the entries come in the order the lookups finished
gather_as_completed(ls, order) == [i \in 1..Len(ls) |-> ls[order[i]]]

\* asyncio.gather(*tasks, return_exceptions=True): one entry per awaitable,
\* in the order the awaitables were passed
gather(ls, order) == [i \in 1..Len(ls) |-> ls[i]]

\* lines 206-212: an exception becomes an empty list
process_results(results) ==
    [i \in 1..Len(results) |->
        IF results[i].state = "raised" THEN <<>> ELSE results[i].value]

\* variant: every call builds a client of its own
get_session_per_call(s, created) == [session |-> "client", created |-> created + 1]

\* _get_session: the client is built when there is none, else reused; no
\* await between the test and the assignment
get_session(s, created) ==
    IF s = "none"
    THEN [session |-> "client", created |-> created + 1]
    ELSE [session |-> s, created |-> created]

\* batch_geocode is called: one forward_geocode coroutine per address
BatchGeocode ==
    /\ batch_pc \in {"idle", "returned"}
    /\ \E as \in SeqsUpTo(Addrs, MaxAddresses) :
        /\ addresses' = as
        /\ lookups' = [i \in 1..Len(as) |-> Lookup("created", <<>>)]
    /\ batch_pc' = "gather"
    /\ completion_order' = <<>>
    /\ processed_results' = <<>>
    /\ UNCHANGED <<session, clients_created, closed, nonBatchVars>>

\* a lookup starts: _get_session creates the client when there is none
StartLookup(i) ==
    /\ batch_pc = "gather"
    /\ lookups[i].state = "created"
    /\ lookups' = [lookups EXCEPT ![i] = Lookup("requesting", <<>>)]
    /\ \E got \in {get_session(session, clients_created)} :
          /\ session' = got.session
          /\ clients_created' = got.created
    /\ UNCHANGED <<addresses, batch_pc, completion_order, processed_results,
                   closed, nonBatchVars>>

\* a lookup ends: it returns its results or raises
FinishLookup(i) ==
    /\ batch_pc = "gather"
    /\ lookups[i].state = "requesting"
    /\ \/ lookups' = [lookups EXCEPT
                        ![i] = Lookup("returned", <<GeocodingResult(addresses[i])>>)]
       \/ lookups' = [lookups EXCEPT ![i] = Lookup("raised", <<>>)]
    /\ completion_order' = Append(completion_order, i)
    /\ UNCHANGED <<addresses, batch_pc, processed_results, session,
                   clients_created, closed, nonBatchVars>>

\* every lookup has ended: gather returns and the results are processed
ReturnBatch ==
    /\ batch_pc = "gather"
    /\ \A i \in 1..Len(lookups) : Finished(lookups[i])
    /\ processed_results' = process_results(gather(lookups, completion_order))
    /\ batch_pc' = "returned"
    /\ UNCHANGED <<addresses, lookups, completion_order, session,
                   clients_created, closed, nonBatchVars>>

\* GeocodingServer.close()
Close ==
    /\ batch_pc \in {"idle", "returned"}
    /\ session = "client"
    /\ session' = "none"
    /\ clients_created' = 0
    /\ closed' = TRUE
    /\ UNCHANGED <<addresses, batch_pc, lookups, completion_order,
                   processed_results, nonBatchVars>>

NextBatch ==
    \/ BatchGeocode
    \/ \E i \in 1..MaxAddresses + 1 : i <= Len(lookups) /\ StartLookup(i)
    \/ \E i \in 1..MaxAddresses + 1 : i <= Len(lookups) /\ FinishLookup(i)
    \/ ReturnBatch
    \/ Close

\* one GeocodingServer serving batch_geocode calls
InitServer == InitAgent /\ agent = "map" /\ Constructed /\ InitServers

SpecBatch == InitServer /\ [][NextBatch]_vars

\* ------------------------------------------------------ RoutingServer
\* A coordinate is an integer count of 0.0001 degree, a distance an integer
\* count of millimetres and a duration one of milliseconds; a product is
\* rounded to the nearest unit, a rounding far coarser than a float's.
Point(lat, lon) == [lat |-> lat, lon |-> lon]

\* n / d to the nearest unit
Round(n, d) == (2 * n + d) \div (2 * d)

\* the origin and destination a caller may pass: two places of Manhattan,
\* one place twice, a latitude above 90, a longitude above 180 and two
\* antipodal places
Trips ==
    { <<Point(407484, -739857), Point(407580, -739855)>>,
      <<Point(407484, -739857), Point(407484, -739857)>>,
      <<Point(900001, 0), Point(899900, 0)>>,
      <<Point(0, 1799900), Point(0, 1800001)>>,
      <<Point(-120000, -547500), Point(120000, 1252500)>> }

\* _calculate_haversine_distance on these trips: R * c in millimetres, and
\* the ValueError of math.sqrt(1 - a) where rounding lifts a above 1
calculate_haversine_distance(trip) ==
    CASE trip = <<Point(407484, -739857), Point(407580, -739855)>> ->
            [raised |-> NoError, distance |-> 1067604]
      [] trip = <<Point(407484, -739857), Point(407484, -739857)>> ->
            [raised |-> NoError, distance |-> 0]
      [] trip = <<Point(900001, 0), Point(899900, 0)>> ->
            [raised |-> NoError, distance |-> 1123069]
      [] trip = <<Point(0, 1799900), Point(0, 1800001)>> ->
            [raised |-> NoError, distance |-> 1123069]
      [] trip = <<Point(-120000, -547500), Point(120000, 1252500)>> ->
            [raised |-> Err("ValueError", <<"math domain error">>), distance |-> 0]

\* the Literal of calculate_route's mode parameter
Modes == {"driving", "walking", "cycling", "transit"}

\* the strings a caller may pass as mode
ModeInputs == Modes \cup {"flying"}

\* speed_kmh.get(mode, 50)
speed_kmh(mode) ==
    CASE mode = "driving" -> 50
      [] mode = "walking" -> 5
      [] mode = "cycling" -> 15
      [] mode = "transit" -> 30
      [] OTHER -> 50

RouteStep(maneuver, distance, duration) ==
    [maneuver |-> maneuver, distance_meters |-> distance,
     duration_seconds |-> duration]

\* variant: the last step carries 30% as well
route_steps_overlap(distance, duration) ==
    << RouteStep("depart", Round(distance * 3, 10), Round(duration * 3, 10)),
       RouteStep("turn-right", Round(distance * 5, 10), Round(duration * 5, 10)),
       RouteStep("arrive", Round(distance * 3, 10), Round(duration * 3, 10)) >>

\* lines 133-162: the three mock steps
route_steps(distance, duration) ==
    << RouteStep("depart", Round(distance * 3, 10), Round(duration * 3, 10)),
       RouteStep("turn-right", Round(distance * 5, 10), Round(duration * 5, 10)),
       RouteStep("arrive", Round(distance * 2, 10), Round(duration * 2, 10)) >>

\* lines 110-175 of calculate_route, the session once obtained
calculate_route(trip, mode) ==
    One({ IF h.raised # NoError
          THEN [raised |-> h.raised, route |-> <<>>]
          ELSE One({ [raised |-> NoError,
                      route |-> [distance_meters |-> h.distance,
                                 duration_seconds |-> duration,
                                 steps |-> route_steps(h.distance, duration),
                                 mode |-> mode, alt |-> 0]]
                   : duration \in {Round(h.distance * 36, 10 * speed_kmh(mode))} })
        : h \in {calculate_haversine_distance(trip)} })

\* lines 255-270 of get_route_alternatives: the base route and its variants
route_alternatives(base_route, alternatives) ==
    <<base_route>> \o
    [i \in 1..((IF alternatives < 3 THEN alternatives ELSE 3) - 1) |->
        [base_route EXCEPT
            !.distance_meters = Round(base_route.distance_meters * (10 + i), 10),
            !.duration_seconds = Round(base_route.duration_seconds * (100 + 15 * i), 100),
            !.alt = i]]

\* the operations: two methods of a RoutingServer and a tool function
RouteOps == {"calculate_route", "get_route_alternatives",
             "calculate_route_between_points"}

\* the tool functions build a RoutingServer of their own
IsRouteTool(op) == op = "calculate_route_between_points"

\* an operation is called
RouteCall ==
    /\ route_pc \in {"idle", "left"}
    /\ \E op \in RouteOps, trip \in Trips :
       \E mode \in (IF op = "get_route_alternatives" THEN {"driving"} ELSE ModeInputs),
          n \in (IF op = "get_route_alternatives" THEN 0..MaxAlternatives ELSE {0}) :
          /\ route_call' = [op |-> op, trip |-> trip, mode |-> mode, alternatives |-> n]
          /\ route_session' = IF IsRouteTool(op) THEN "none" ELSE route_session
    /\ route_pc' = "entered"
    /\ routes' = <<>>
    /\ route_raised' = NoError
    /\ UNCHANGED nonRouteVars

\* line 107: session = await self._get_session()
RouteGetSession ==
    /\ route_pc = "entered"
    /\ route_session' = get_session(route_session, 0).session
    /\ route_pc' = "session"
    /\ UNCHANGED <<route_call, routes, route_raised, nonRouteVars>>

\* the route is built and returned, or the distance computation raises and
\* the exception leaves the operation and the tool function that called it
RouteBuild ==
    /\ route_pc = "session"
    /\ \E r \in {calculate_route(route_call.trip, route_call.mode)} :
          IF r.raised # NoError
          THEN /\ route_raised' = r.raised
               /\ route_pc' = "left"
               /\ UNCHANGED routes
          ELSE /\ routes' = IF route_call.op = "get_route_alternatives"
                            THEN route_alternatives(r.route, route_call.alternatives)
                            ELSE <<r.route>>
               /\ route_pc' = IF IsRouteTool(route_call.op) THEN "close" ELSE "left"
               /\ UNCHANGED route_raised
    /\ UNCHANGED <<route_call, route_session, nonRouteVars>>

\* RoutingServer.close(): line 304 of the tool function, or the caller of
\* the methods once an operation is over
RouteClose ==
    /\ \/ route_pc = "close" /\ route_pc' = "left"
       \/ /\ route_pc = "left"
          /\ ~IsRouteTool(route_call.op)
          /\ route_session = "client"
          /\ route_pc' = "idle"
    /\ route_session' = "none"
    /\ UNCHANGED <<route_call, routes, route_raised, nonRouteVars>>

NextRoute ==
    \/ RouteCall
    \/ RouteGetSession
    \/ RouteBuild
    \/ RouteClose

\* one RoutingServer per tool call, and one that serves method calls
InitRouting == InitAgent /\ agent = "map" /\ Constructed /\ InitServers

SpecRoute == InitRouting /\ [][NextRoute]_vars

\* ---------------------------------------------------------- POIServer
\* the centres a caller may pass: the Empire State Building's own
\* coordinates (those of the tests) and a corner north of Times Square
Centres == {Point(407484, -739857), Point(407589, -739851)}

\* _calculate_distance from a centre to the place at (lat2, lon2): R * c of
\* the haversine formula, in millimetres
calculate_distance(lat1, lon1, lat2, lon2) ==
    One({ row[CHOOSE k \in 1..Len(mock_pois) :
                 mock_pois[k].latitude = lat2 /\ mock_pois[k].longitude = lon2]
        : row \in { IF Point(lat1, lon1) = Point(407484, -739857)
                    THEN <<4199930, 0, 2405397, 3933563, 878890, 1067604,
                           5365424, 860981>>
                    ELSE <<3142288, 1168640, 3444208, 2932136, 2016844, 105594,
                           6525502, 958157>> } })

\* list.sort(key=...) given the key of each element: ascending and stable
sort(s, keys) ==
    [p \in 1..Len(s) |->
        s[CHOOSE i \in 1..Len(s) :
            Cardinality({j \in 1..Len(s) :
                            \/ keys[j] < keys[i]
                            \/ keys[j] = keys[i] /\ j < i}) + 1 = p]]

\* s[:limit]
slice(s, limit) ==
    IF limit >= 0
    THEN SubSeq(s, 1, IF limit < Len(s) THEN limit ELSE Len(s))
    ELSE SubSeq(s, 1, Len(s) + limit)

\* results.sort(key=lambda x: x.distance_meters or float('inf'))
sort_by_distance(s) ==
    sort(s, [i \in 1..Len(s) |->
                IF s[i].distance_meters = None \/ s[i].distance_meters = 0
                THEN Inf ELSE s[i].distance_meters])

\* results.sort(key=lambda x: x.rating or 0, reverse=True): descending and
\* stable
sort_by_rating(s) ==
    sort(s, [i \in 1..Len(s) |->
                IF s[i].rating = None \/ s[i].rating = 0
                THEN 0 ELSE 0 - s[i].rating])

\* poi_copy = poi.model_copy() followed by poi_copy.distance_meters =
\* distance, were the copy the stored object itself: the assignment writes
\* to the database
model_copy_alias(poi, distance) ==
    [copy |-> [poi EXCEPT !.distance_meters = distance],
     stored |-> [poi EXCEPT !.distance_meters = distance]]

\* poi_copy = poi.model_copy() followed by poi_copy.distance_meters =
\* distance: the record handed out and the stored record afterwards
model_copy(poi, distance) ==
    [copy |-> [poi EXCEPT !.distance_meters = distance], stored |-> poi]

\* the copies of the places with the distance from the centre set
measured(latitude, longitude) ==
    [i \in 1..Len(database) |->
        model_copy(database[i],
                   calculate_distance(latitude, longitude,
                                      database[i].latitude,
                                      database[i].longitude)).copy]

\* self._mock_pois after a search has copied and measured the records at
\* the indexes in selected
stored(latitude, longitude, selected) ==
    [i \in 1..Len(database) |->
        IF i \in selected
        THEN model_copy(database[i],
                        calculate_distance(latitude, longitude,
                                           database[i].latitude,
                                           database[i].longitude)).stored
        ELSE database[i]]

\* lines 218-236
search_nearby(latitude, longitude, radius_meters, category, limit) ==
    slice(sort_by_distance(
              SelectSeq(measured(latitude, longitude),
                        LAMBDA poi : /\ poi.distance_meters <= radius_meters
                                     /\ (category = NoCategory
                                         \/ poi.category = category))),
          limit)

\* lines 281-283: the lowered query occurs in the name, the category or the
\* description
matches(query, poi) ==
    \E query_lower \in {lower(query)} :
        \/ Contains(lower(poi.name), query_lower)
        \/ Contains(lower(<<poi.category>>), query_lower)
        \/ Contains(lower(poi.description), query_lower)

\* lines 276-307
search_text(query, latitude, longitude, radius_meters, limit) ==
    IF latitude # None /\ longitude # None
    THEN slice(sort_by_distance(
                   SelectSeq(measured(latitude, longitude),
                             LAMBDA poi : /\ matches(query, poi)
                                          /\ (radius_meters = None
                                              \/ poi.distance_meters <= radius_meters))),
               limit)
    ELSE slice(sort_by_rating(SelectSeq(database, LAMBDA poi : matches(query, poi))),
               limit)

\* lines 366-385; a rating in tenths
search_by_category(category, latitude, longitude, radius_meters, min_rating, max_price_level, limit) ==
    slice(SelectSeq(search_nearby(latitude, longitude, radius_meters, category, 100),
                    LAMBDA poi :
                        /\ min_rating # None =>
                              ~(poi.rating = None \/ poi.rating < min_rating)
                        /\ max_price_level # None =>
                              ~(poi.price_level # None
                                /\ poi.price_level > max_price_level)),
          limit)

\* lines 326-332: the stored record of that name, lower case compared, as a
\* list of one; None as the empty list
get_place_details(place_name) ==
    SelectSeq(database, LAMBDA poi : lower(poi.name) = lower(place_name))

\* the radii a caller may pass, in millimetres: none, 1 km and the default
\* 5 km
Radii == {0, 1000000, 5000000}

\* the limits a caller may pass: small ones, the tests' 10 and a negative one
Limits == (-1..MaxLimit) \cup {10}

\* POIServer.search_nearby is called and returns
SearchNearby ==
    /\ \E c \in Centres, r \in Radii, limit \in Limits,
          category \in {NoCategory, "landmark", "park"} :
          /\ poi_call' = [op |-> "search_nearby", latitude |-> c.lat,
                          longitude |-> c.lon, radius_meters |-> r,
                          category |-> category, query |-> <<>>, limit |-> limit]
          /\ poi_results' = search_nearby(c.lat, c.lon, r, category, limit)
          /\ database' = stored(c.lat, c.lon,
                                {i \in 1..Len(database) :
                                    /\ calculate_distance(c.lat, c.lon,
                                                           database[i].latitude,
                                                           database[i].longitude) <= r
                                    /\ (category = NoCategory
                                        \/ database[i].category = category)})
    /\ UNCHANGED nonPOIVars

\* POIServer.search_text is called and returns
SearchText ==
    /\ \E q \in {<<>>, <<"PARK">>, <<"landmark">>, <<"sushi">>},
          limit \in Limits, r \in {None, 1000000},
          lat \in {c.lat : c \in Centres} \cup {None} :
       \E lon \in {c.lon : c \in {x \in Centres : x.lat = lat}} \cup {None} :
          /\ poi_call' = [op |-> "search_text", latitude |-> lat,
                          longitude |-> lon, radius_meters |-> r,
                          category |-> NoCategory, query |-> q, limit |-> limit]
          /\ poi_results' = search_text(q, lat, lon, r, limit)
          /\ database' = IF lat # None /\ lon # None
                         THEN stored(lat, lon, {i \in 1..Len(database) :
                                                  matches(q, database[i])})
                         ELSE database
    /\ UNCHANGED nonPOIVars

\* POIServer.search_by_category is called and returns
SearchByCategory ==
    /\ \E c \in Centres, r \in Radii, limit \in Limits,
          category \in {"landmark", "restaurant"},
          min_rating \in {None, 47}, max_price_level \in {None, 2} :
          /\ poi_call' = [op |-> "search_by_category", latitude |-> c.lat,
                          longitude |-> c.lon, radius_meters |-> r,
                          category |-> category, query |-> <<>>, limit |-> limit,
                          min_rating |-> min_rating,
                          max_price_level |-> max_price_level]
          /\ poi_results' = search_by_category(category, c.lat, c.lon, r,
                                               min_rating, max_price_level, limit)
          /\ database' = stored(c.lat, c.lon,
                                {i \in 1..Len(database) :
                                    /\ calculate_distance(c.lat, c.lon,
                                                           database[i].latitude,
                                                           database[i].longitude) <= r
                                    /\ database[i].category = category})
    /\ UNCHANGED nonPOIVars

\* POIServer.get_place_details is called and returns
GetPlaceDetails ==
    /\ \E place_name \in {<<"empire", "state", "building">>, <<"Times", "Square">>,
                           <<"nonexistent", "place">>} :
          /\ poi_call' = [op |-> "get_place_details", place_name |-> place_name]
          /\ poi_results' = get_place_details(place_name)
    /\ UNCHANGED <<database, nonPOIVars>>

NextPOI ==
    \/ SearchNearby
    \/ SearchText
    \/ SearchByCategory
    \/ GetPlaceDetails

\* one POIServer serving searches
InitSearch == InitAgent /\ agent = "map" /\ Constructed /\ InitServers

SpecPOI == InitSearch /\ [][NextPOI]_vars

\* ----------------------------------------------------- AirQualityServer
\* AirQuality.aqi_description: descriptions.get(self.aqi, "Unknown")
aqi_description(aqi) ==
    CASE aqi = 1 -> "Good"
      [] aqi = 2 -> "Fair"
      [] aqi = 3 -> "Moderate"
      [] aqi = 4 -> "Poor"
      [] aqi = 5 -> "Very Poor"
      [] OTHER -> "Unknown"

\* get_pollution_forecast, line 386 and 392: aqi_descriptions.get(f.aqi, "Unknown")
aqi_descriptions_get(aqi) ==
    IF aqi \in 1..5
    THEN <<"Good", "Fair", "Moderate", "Poor", "Very Poor">>[aqi]
    ELSE "Unknown"

\* an operation is called for a location and sends its request
AirRequest ==
    /\ air_pc \in {"idle", "left", "raised"}
    /\ \E op \in {"get_current_air_quality", "get_air_quality_forecast",
                  "get_air_quality", "get_pollution_forecast"} :
       \E hours \in (IF op \in {"get_air_quality_forecast", "get_pollution_forecast"}
                     THEN {1, 24} ELSE {0}) :
          air_call' = [op |-> op, hours |-> hours]
    /\ air_pc' = "requested"
    /\ air_data' = <<>>
    /\ air_result' = <<>>
    /\ air_output' = <<>>
    /\ UNCHANGED nonAirVars

\* the reply arrives: data["list"] holds one main.aqi per entry, any integer
\* the API sends; the objects are built from it and the tool functions
\* format them
AirReply ==
    /\ air_pc = "requested"
    /\ \E data \in SeqsUpTo(0..6, MaxEntries) :
          /\ air_data' = data
          /\ IF air_call.op \in {"get_current_air_quality", "get_air_quality"}
             THEN IF data = <<>>
                  THEN /\ air_pc' = "raised"
                       /\ UNCHANGED <<air_result, air_output>>
                  ELSE /\ air_pc' = "left"
                       /\ air_result' = <<[aqi |-> data[1],
                                           aqi_description |-> aqi_description(data[1])]>>
                       /\ air_output' =
                            IF air_call.op = "get_air_quality"
                            THEN <<[aqi |-> data[1],
                                    aqi_description |-> aqi_description(data[1])]>>
                            ELSE <<>>
             ELSE /\ air_pc' = "left"
                  /\ air_result' = [i \in 1..Len(slice(data, air_call.hours)) |->
                                       [aqi |-> data[i]]]
                  /\ air_output' =
                       IF air_call.op = "get_pollution_forecast"
                       THEN [i \in 1..Len(slice(data, air_call.hours)) |->
                                [aqi |-> data[i],
                                 aqi_description |-> aqi_descriptions_get(data[i])]]
                       ELSE <<>>
    /\ UNCHANGED <<air_call, nonAirVars>>

NextAir ==
    \/ AirRequest
    \/ AirReply

\* one AirQualityServer serving requests
InitAirQuality == InitAgent /\ agent = "weather" /\ Constructed /\ InitServers

SpecAir == InitAirQuality /\ [][NextAir]_vars

\* ------------------------------- location arguments of the weather servers
\* the truth value of a location: None and "" are false
given(location) == location # NoLocation /\ location # ""

\* the truth value of a coordinate: None and 0.0 are false
truthy(x) == x # None /\ x # 0

\* air_quality_server.py line 137, were the test `is None and ... is None`
lacks_coordinates_both(latitude, longitude) == latitude = None /\ longitude = None

\* air_quality_server.py lines 137, 203: latitude is None or longitude is None
lacks_coordinates(latitude, longitude) == latitude = None \/ longitude = None

\* air_quality_server.py lines 135, 201:
\* location and not (latitude and longitude)
geocodes(location, latitude, longitude) ==
    given(location) /\ ~(truthy(latitude) /\ truthy(longitude))

\* an HTTP GET: the endpoint and the q, lat and lon of its params
Request(endpoint, q, lat, lon) == [endpoint |-> endpoint, q |-> q, lat |-> lat, lon |-> lon]

\* the endpoint an air-quality operation reads
air_endpoint(op) ==
    IF op = "get_current_air_quality" THEN "air_pollution" ELSE "air_pollution/forecast"

\* where a call that is over goes: a tool function runs its finally clause
\* first
wx_leave == IF wx_call.tool THEN "close" ELSE "left"

\* a method of one of the servers is called, by its tool function on a new
\* server or directly
WxCall ==
    /\ wx_pc \in {"idle", "left"}
    /\ \E op \in {"get_current_weather", "get_current_air_quality",
                  "get_air_quality_forecast"},
          tool \in BOOLEAN, location \in {NoLocation, "", "Beijing"},
          latitude \in {None, 0, 399042}, longitude \in {None, 0, 1164074} :
          /\ wx_call' = [op |-> op, tool |-> tool, location |-> location,
                         latitude |-> latitude, longitude |-> longitude]
          /\ wx_session' = IF tool THEN "none" ELSE wx_session
    /\ wx_pc' = "entered"
    /\ wx_requests' = <<>>
    /\ wx_raised' = NoError
    /\ UNCHANGED nonWxVars

\* WeatherForecastServer.get_current_weather, lines 104-120: the client
\* first, then the params or the ValueError
WxWeather ==
    /\ wx_pc = "entered"
    /\ wx_call.op = "get_current_weather"
    /\ wx_session' = "client"
    /\ IF given(wx_call.location)
       THEN /\ wx_requests' = <<Request("weather", wx_call.location, None, None)>>
            /\ wx_pc' = "requested"
            /\ UNCHANGED wx_raised
       ELSE IF wx_call.latitude # None /\ wx_call.longitude # None
       THEN /\ wx_requests' = <<Request("weather", NoLocation, wx_call.latitude,
                                        wx_call.longitude)>>
            /\ wx_pc' = "requested"
            /\ UNCHANGED wx_raised
       ELSE /\ wx_raised' = MissingLocation
            /\ wx_pc' = wx_leave
            /\ UNCHANGED wx_requests
    /\ UNCHANGED <<wx_call, nonWxVars>>

\* AirQualityServer.get_current_air_quality, lines 135-151, and
\* get_air_quality_forecast, lines 201-217: the geocoding lookup, the
\* ValueError or the request with the coordinates given
WxAir ==
    /\ wx_pc = "entered"
    /\ wx_call.op # "get_current_weather"
    /\ IF geocodes(wx_call.location, wx_call.latitude, wx_call.longitude)
       THEN /\ wx_session' = "client"
            /\ wx_requests' = <<Request("geo/1.0/direct", wx_call.location, None, None)>>
            /\ wx_pc' = "geocoding"
            /\ UNCHANGED wx_raised
       ELSE IF lacks_coordinates(wx_call.latitude, wx_call.longitude)
       THEN /\ wx_raised' = MissingLocation
            /\ wx_pc' = wx_leave
            /\ UNCHANGED <<wx_session, wx_requests>>
       ELSE /\ wx_session' = "client"
            /\ wx_requests' = <<Request(air_endpoint(wx_call.op), NoLocation,
                                        wx_call.latitude, wx_call.longitude)>>
            /\ wx_pc' = "requested"
            /\ UNCHANGED wx_raised
    /\ UNCHANGED <<wx_call, nonWxVars>>

\* _get_coordinates, lines 97-110: the geocoder answers with the place's
\* coordinates, with an empty list or with an error status
WxGeocoded ==
    /\ wx_pc = "geocoding"
    /\ \E reply \in {"found", "empty", "status"} :
          IF reply = "found"
          THEN /\ wx_requests' = Append(wx_requests,
                                        Request(air_endpoint(wx_call.op), NoLocation,
                                                399075, 1163972))
               /\ wx_pc' = "requested"
               /\ UNCHANGED wx_raised
          ELSE /\ wx_raised' = IF reply = "empty"
                               THEN Err("ValueError", <<"Location", wx_call.location,
                                                        "not found">>)
                               ELSE Err("Exception", <<"Geocoding failed">>)
               /\ wx_pc' = wx_leave
               /\ UNCHANGED wx_requests
    /\ UNCHANGED <<wx_call, wx_session, nonWxVars>>

\* the data endpoint answers: the method returns its result or raises
WxReply ==
    /\ wx_pc = "requested"
    /\ \E e \in {NoError, Err("Exception", <<"API request failed">>)} :
          wx_raised' = e
    /\ wx_pc' = wx_leave
    /\ UNCHANGED <<wx_call, wx_session, wx_requests, nonWxVars>>

\* the finally clause of a tool function: await server.close()
WxClose ==
    /\ wx_pc = "close"
    /\ wx_session' = "none"
    /\ wx_pc' = "left"
    /\ UNCHANGED <<wx_call, wx_requests, wx_raised, nonWxVars>>

NextWx ==
    \/ WxCall
    \/ WxWeather
    \/ WxAir
    \/ WxGeocoded
    \/ WxReply
    \/ WxClose

\* one server of each kind, no call made yet
InitWeather == InitAgent /\ agent = "weather" /\ Constructed /\ InitServers

SpecWx == InitWeather /\ [][NextWx]_vars

\* ------------------------------------------------ run_with_manual_tools
\* line 90
max_iterations == 10

\* the __name__ of each function of the tools argument, in list order
tool_names == <<"geocode", "route">>

\* the function calls one response of the model may hold: each names a tool
\* of the list or none of them, and a tool returns a value, returns None or
\* raises when it is called
ModelResponses ==
    SeqsUpTo({[name |-> "route", does |-> b] : b \in {"value", "none", "raises"}}
                 \cup {[name |-> "get_weather", does |-> "absent"]},
             MaxCalls)

\* response["result"] of a FunctionResponse
Value == [error |-> FALSE, text |-> <<"result">>]
Error(text) == [error |-> TRUE, text |-> text]
NotFound(func_name) == Error(<<"Function", func_name, "not found">>)

\* variant: the loop runs while iteration <= max_iterations
loop_continues_once_more(i) == i <= max_iterations

\* line 93: while iteration < max_iterations
loop_continues(i) == i < max_iterations

\* lines 112-144: the first tool of the list that bears the name is called
\* and the FunctionResponse is built from its outcome; executed counts the
\* calls of tools made for fc
function_response(fc) ==
    One({ IF found = {}
          THEN [name |-> fc.name, executed |-> 0, result |-> NotFound(fc.name)]
          ELSE IF fc.does = "raises"
          THEN [name |-> fc.name, executed |-> 1, result |-> Error(<<"str(e)">>)]
          ELSE IF fc.does = "none"
          THEN [name |-> fc.name, executed |-> 1, result |-> NotFound(fc.name)]
          ELSE [name |-> fc.name, executed |-> 1, result |-> Value]
        : found \in {{k \in 1..Len(tool_names) : tool_names[k] = fc.name}} })

\* lines 79-91: the prompt is sent and the model's first response arrives
GmStart ==
    /\ gm_pc = "start"
    /\ messages_sent' = 1
    /\ \E r \in ModelResponses : function_calls' = r
    /\ gm_pc' = "loop"
    /\ UNCHANGED <<iteration, requested, function_responses, nonGmVars>>

\* lines 93-144: the loop test and one pass of the loop up to the send:
\* leave when the response holds no function call, else run each call's
\* tool and build the responses
GmRound ==
    /\ gm_pc = "loop"
    /\ IF ~loop_continues(iteration)
       THEN /\ gm_pc' = "return"
            /\ UNCHANGED <<iteration, requested, function_responses>>
       ELSE /\ iteration' = iteration + 1
            /\ IF function_calls = <<>>
               THEN /\ gm_pc' = "return"
                    /\ UNCHANGED <<requested, function_responses>>
               ELSE /\ requested' = function_calls
                    /\ function_responses' =
                          [k \in 1..Len(function_calls) |->
                              function_response(function_calls[k])]
                    /\ gm_pc' = "send"
    /\ UNCHANGED <<function_calls, messages_sent, nonGmVars>>

\* lines 147-155: the responses are sent back and the model's next response
\* arrives; the list sent is not read again (line 110 starts a new one)
GmSend ==
    /\ gm_pc = "send"
    /\ messages_sent' = messages_sent + 1
    /\ \E r \in ModelResponses : function_calls' = r
    /\ requested' = <<>>
    /\ function_responses' = <<>>
    /\ gm_pc' = "loop"
    /\ UNCHANGED <<iteration, nonGmVars>>

\* line 158: return response.text, which raises when the response holds a
\* function call and no text
GmReturn ==
    /\ gm_pc = "return"
    /\ gm_pc' = IF function_calls = <<>> THEN "returned" ELSE "raised"
    /\ UNCHANGED <<iteration, function_calls, messages_sent, requested,
                   function_responses, nonGmVars>>

NextGemini ==
    \/ GmStart
    \/ GmRound
    \/ GmSend
    \/ GmReturn

\* one call of run_with_manual_tools
InitGemini == InitAgent /\ agent = "map" /\ Constructed /\ InitServers

SpecGemini == InitGemini /\ [][NextGemini]_vars

\* the coroutine is run to its end: each model response and each tool call
\* comes back
SpecGeminiLive == SpecGemini /\ WF_vars(NextGemini)

\* ============================================================ properties
\* process_query of the weather agent has read and parsed a completion
Parsed ==
    /\ agent = "weather"
    /\ pc \in {"invoke", "format", "return"}
    /\ ~llm_response.none

\* decisions that name a registered tool and give a parameters mapping
GoodDecisions ==
    { Decision("get_current_weather", London),
      Decision("get_air_quality", London),
      Decision("get_current_weather", Pair("location", "a}b")),
      Decision("get_air_quality", Pair("location", "a{b")),
      Decision("get_current_weather", Pair("note", "x")) }

\* the "tool" and the "parameters" written in a decision
ToolIn(c) == StrVal(c[2].v)
ParametersIn(c) == ObjVal(Put(EmptyMap, c[6].k, StrVal(c[6].v)))

\* the completion is the decision c with commentary before and/or after it
Embeds(text, c) ==
    \E p \in ProseRuns, q \in ProseRuns :
        /\ text = p \o c \o q
        /\ p # <<>> \/ q # <<>>

\* the commentary around the decision holds no brace, nor does a string of it
BraceFree(text, c) ==
    /\ \E p \in SeqsUpTo({W}, MaxProse), q \in SeqsUpTo({W}, MaxProse) :
            text = p \o c \o q
    /\ \A i \in 1..Len(c) : c[i].c = "pair" => c[i].v \notin BraceStrings

\* C1: a decision embedded in arbitrary commentary is recovered exactly (its
\* tool name and its parameters) and the tool is invoked with them.
C1_EmbeddedDecisionRecovered ==
    \A c \in GoodDecisions :
        (Parsed /\ Embeds(llm_response.text, c)) =>
            /\ tool_name = ToolIn(c)
            /\ parameters = ParametersIn(c)
            /\ pc = "invoke" \/ invocations = <<[tool |-> ToolIn(c).s, args |-> ParametersIn(c)]>>

\* a '{' comes somewhere before a '}': the text holds a balanced
\* brace-delimited run
HasBalancedObject(text) ==
    \E i \in 1..Len(text), j \in 1..Len(text) :
        i < j /\ BraceOf(text[i]) = "{" /\ BraceOf(text[j]) = "}"

\* C2: a completion that is not JSON as a whole and holds no balanced
\* brace-delimited object gets the "please rephrase" message, with no tool
\* invoked and no formatting call.
C2_NoObjectRephrase ==
    (Parsed /\ ~json_loads(llm_response.text).ok
            /\ ~HasBalancedObject(llm_response.text)) =>
        /\ pc = "return"
        /\ response = Content(RephraseMsg)
        /\ invocations = <<>>
        /\ trace = <<"llm">>
        /\ format_messages = <<>>

C2_Witness ==
    /\ Parsed
    /\ ~json_loads(llm_response.text).ok
    /\ ~HasBalancedObject(llm_response.text)
    /\ \E i \in 1..Len(llm_response.text) : BraceOf(llm_response.text[i]) # ""
    /\ response = Content(RephraseMsg)

\* the completion parsed to an object without a "tool" key
ParsedWithoutTool ==
    /\ Parsed
    /\ parse_tool_call(llm_response.text).ok
    /\ parse_tool_call(llm_response.text).val.t = "obj"
    /\ "tool" \notin DOMAIN parse_tool_call(llm_response.text).val.m

NamesUnknownTool ==
    /\ Parsed
    /\ parse_tool_call(llm_response.text).ok
    /\ parse_tool_call(llm_response.text).val.t = "obj"
    /\ "tool" \in DOMAIN parse_tool_call(llm_response.text).val.m
    /\ parse_tool_call(llm_response.text).val.m["tool"].t \in {"str", "num"}
    /\ parse_tool_call(llm_response.text).val.m["tool"].s \notin tool_functions

ToolRaised == agent = "weather" /\ pc = "return" /\ tool_error # NoError

\* a word of the text is the name
Names(text, name) == \E i \in 1..Len(text) : text[i] = name

IsPrefix(a, b) == Len(a) <= Len(b) /\ SubSeq(b, 1, Len(a)) = a

\* C6: a cycle that completes makes the selection call, one tool invocation
\* and the formatting call, in that order; no cycle makes more than two LLM
\* calls or more than one invocation, or formats before it invokes.
C6_CallOrder ==
    agent = "weather" =>
        /\ IsPrefix(trace, <<"llm", "tool", "llm">>)
        /\ Len(invocations) <= 1
        /\ (pc = "return" /\ exit_path = "formatted") =>
              /\ trace = <<"llm", "tool", "llm">>
              /\ Len(invocations) = 1

C6_Witness ==
    /\ agent = "weather"
    /\ pc = "return"
    /\ exit_path = "formatted"
    /\ trace = <<"llm", "tool", "llm">>

\* process_query returns the content of the formatting completion
Formatted == agent = "weather" /\ pc = "return" /\ exit_path = "formatted"

\* the formatting prompt holds the query, the tool name and the data
PromptEmbeds ==
    /\ Len(format_messages) = 2
    /\ Contains(format_messages[2], <<"User asked:">> \o user_query)
    /\ Contains(format_messages[2], <<"Tool used:", tool_name.s>>)
    /\ Contains(format_messages[2],
                <<"Data received from API:">> \o result
                    \o <<"Provide a natural response using ONLY this data:">>)

\* the formatting completion was the echo of its input
Echoed == Formatted /\ ~response.none /\ response.text = Echo(format_messages)

\* C7 as stated: the prompt embeds query, tool name and data as returned, and
\* with an echoing model every number of the response is one of the tool
\* result.
C7_EchoOnlyResultNumbers ==
    /\ Formatted => PromptEmbeds
    /\ Echoed => Numbers(response.text) \subseteq Numbers(result)

\* C7 amended: the prompt embeds query, tool name and data as returned, and
\* with an echoing model every number of the response is one of the tool
\* result or of the user's query.
C7_EchoResultOrQueryNumbers ==
    /\ Formatted => PromptEmbeds
    /\ Echoed => /\ Numbers(response.text) \subseteq Numbers(result) \cup Numbers(user_query)
                 /\ Numbers(result) \subseteq Numbers(response.text)

C7_Witness ==
    /\ Echoed
    /\ Numbers(user_query) # {}
    /\ Numbers(result) # {}

\* C8: an error raised while a query is handled never ends the loop: the
\* loop prompts again, and the session ends only on an exit command or a
\* keyboard interrupt.
C8_ErrorsKeepLoop ==
    /\ session_pc = "ended" => last_event \in {"exit_command", "keyboard_interrupt"}
    /\ last_event \in {"query_error", "read_error"} => session_pc = "input"
    /\ ~session_raised

C8_Witness ==
    /\ agent = "map"
    /\ last_event = "query_error"
    /\ session_pc = "input"

\* the line is an exit word in any case between blanks
IsExitLine(l) ==
    \E i \in 1..Len(l) :
        /\ l[i] \in {"exit", "EXIT", "Exit", "quit", "QUIT", "Quit", "bye", "BYE", "Bye"}
        /\ \A j \in 1..Len(l) : j # i => l[j] = SP

\* C9: an exit word, trimmed and in any case, ends the loop at once with no
\* call of process_query for it; a keyboard interrupt ends the loop and does
\* not propagate.
C9_ExitWordsEndLoop ==
    /\ IsExitLine(line) =>
          /\ session_pc = "ended"
          /\ last_event = "exit_command"
          /\ pc = "idle"
          /\ user_query = <<>>
          /\ trace = <<>>
    /\ last_event = "keyboard_interrupt" => session_pc = "ended" /\ ~session_raised

C9_Witness ==
    /\ line = <<SP, "EXIT", SP>>
    /\ session_pc = "ended"
    /\ last_event = "exit_command"

\* C10: batch_geocode returns one entry per address, entry i being the
\* result for addresses[i] whatever the order the lookups finished in, and
\* the empty list where the lookup failed; every lookup has run to its end.
C10_BatchOrder ==
    batch_pc = "returned" =>
        /\ Len(processed_results) = Len(addresses)
        /\ \A i \in 1..Len(addresses) :
              /\ Finished(lookups[i])
              /\ processed_results[i] =
                    IF lookups[i].state = "raised" THEN <<>>
                    ELSE <<GeocodingResult(addresses[i])>>

C10_Witness ==
    /\ batch_pc = "returned"
    /\ addresses = <<"Empire State Building", "Nowhere">>
    /\ completion_order = <<2, 1>>
    /\ processed_results = <<<<GeocodingResult("Empire State Building")>>, <<>>>>

\* C11: when control leaves a tool function, by a return or by an exception,
\* the HTTP client its server created has been closed: the session is None.
C11_ToolReleasesClient ==
    (route_pc = "left" /\ IsRouteTool(route_call.op)) => route_session = "none"

\* C12: a server holds no client until an operation needs one; however the
\* lookups of a batch interleave, at most one client has been created since
\* construction or the last close(), every lookup in flight uses that one
\* client, and close() leaves the session None.
C12_SingleClient ==
    /\ clients_created <= 1
    /\ (session = "none") <=> (clients_created = 0)
    /\ (batch_pc = "idle" /\ ~closed) => session = "none"
    /\ \A i \in 1..Len(lookups) :
          lookups[i].state = "requesting" => session = "client"

\* after a close(), two lookups in flight share the one fresh client
C12_Witness ==
    /\ closed
    /\ session = "client"
    /\ clients_created = 1
    /\ Cardinality({i \in 1..Len(lookups) : lookups[i].state = "requesting"}) >= 2

\* a latitude outside [-90, 90] or a longitude outside [-180, 180]
OutOfRange(p) ==
    \/ p.lat < -900000 \/ p.lat > 900000
    \/ p.lon < -1800000 \/ p.lon > 1800000

\* C13: an operation given a coordinate out of range obtains no HTTP client
\* and ends with a coordinate-range error (a ValueError), building no result.
C13_RangeErrorBeforeClient ==
    (\E i \in 1..Len(route_call.trip) : OutOfRange(route_call.trip[i])) =>
        /\ route_pc \notin {"session", "close"}
        /\ route_pc = "left" =>
              (route_raised.type = "ValueError" /\ routes = <<>>)

\* the place of a record in the database
DbIndex(x) == CHOOSE k \in 1..Len(mock_pois) : mock_pois[k].name = x.name

\* C14: search_nearby with a limit N >= 0 returns at most N records, each
\* within the radius and of the requested category, nearest first, records
\* at equal distance in database order.
C14_NearbySorted ==
    (poi_call.op = "search_nearby" /\ poi_call.limit >= 0) =>
        /\ Len(poi_results) <= poi_call.limit
        /\ \A i \in 1..Len(poi_results) :
              /\ poi_results[i].distance_meters <= poi_call.radius_meters
              /\ poi_call.category # NoCategory =>
                    poi_results[i].category = poi_call.category
        /\ \A i \in 1..(Len(poi_results) - 1) :
              \/ poi_results[i].distance_meters < poi_results[i + 1].distance_meters
              \/ /\ poi_results[i].distance_meters = poi_results[i + 1].distance_meters
                 /\ DbIndex(poi_results[i]) < DbIndex(poi_results[i + 1])

\* one metre, in millimetres
Tolerance == 1000

\* the sum of the steps' distances less the route's distance
StepsExcess(route) ==
    route.steps[1].distance_meters + route.steps[2].distance_meters
        + route.steps[3].distance_meters - route.distance_meters

\* C15: in every RouteResult an operation returns, the base route and each
\* alternative, the steps' distances sum to the route's distance within the
\* tolerance.
C15_StepsSumToTotal ==
    \A i \in 1..Len(routes) :
        /\ StepsExcess(routes[i]) <= Tolerance
        /\ StepsExcess(routes[i]) >= 0 - Tolerance

\* C16: a route calculate_route returns has three steps of non-negative
\* distance carrying 30%, 50% and 20% of the route's distance, which sum to
\* it within one metre; its distance and duration are non-negative.
C16_RouteStepsSum ==
    (route_call.op \in {"calculate_route", "calculate_route_between_points"}) =>
        \A i \in 1..Len(routes) :
            /\ Len(routes[i].steps) = 3
            /\ \A k \in 1..3 : routes[i].steps[k].distance_meters >= 0
            /\ \A k \in 1..3 :
                  \E tenths \in {<<3, 5, 2>>[k]} :
                     /\ 10 * routes[i].steps[k].distance_meters
                           <= tenths * routes[i].distance_meters + 5
                     /\ 10 * routes[i].steps[k].distance_meters
                           >= tenths * routes[i].distance_meters - 5
            /\ StepsExcess(routes[i]) <= Tolerance
            /\ StepsExcess(routes[i]) >= 0 - Tolerance
            /\ routes[i].distance_meters >= 0
            /\ routes[i].duration_seconds >= 0

\* calculate_route has returned a route of more than a kilometre
C16_Witness ==
    /\ route_call.op = "calculate_route"
    /\ route_pc = "left"
    /\ Len(routes) = 1
    /\ routes[1].distance_meters > 1000000
    /\ routes[1].duration_seconds > 0

\* C17: an agent whose key is not set is never constructed, and once an
\* agent is constructed no query cycle fails for want of an API key.
C17_NoDeferredKeyFailure ==
    /\ (agent = "weather" /\ "OPENROUTER_API_KEY" \notin environ) => ~constructed
    /\ constructed => \A key \in Keys : tool_error # MissingKey(key)

\* C18: search_text returns at most limit records that match the query;
\* with a centre they come nearest first, and within the radius when one is
\* given; without a centre they come best rated first, unrated ones last.
C18_TextSorted ==
    poi_call.op = "search_text" =>
        /\ poi_call.limit >= 0 => Len(poi_results) <= poi_call.limit
        /\ \A i \in 1..Len(poi_results) : matches(poi_call.query, poi_results[i])
        /\ IF poi_call.latitude # None /\ poi_call.longitude # None
           THEN /\ \A i \in 1..(Len(poi_results) - 1) :
                      poi_results[i].distance_meters
                          <= poi_results[i + 1].distance_meters
                /\ poi_call.radius_meters # None =>
                      \A i \in 1..Len(poi_results) :
                          poi_results[i].distance_meters <= poi_call.radius_meters
           ELSE \A i \in 1..(Len(poi_results) - 1) :
                   /\ poi_results[i].rating = None => poi_results[i + 1].rating = None
                   /\ poi_results[i + 1].rating # None =>
                         poi_results[i].rating >= poi_results[i + 1].rating

\* C19: the mode of a route calculate_route returns, directly or for the
\* calculate_route_between_points tool, is one of driving, walking, cycling
\* and transit, and it is the mode the caller asked for.
C19_ModeFixedAndRequested ==
    (route_call.op \in {"calculate_route", "calculate_route_between_points"}) =>
        \A i \in 1..Len(routes) :
            /\ routes[i].mode \in Modes
            /\ routes[i].mode = route_call.mode

\* the label the claim gives an aqi value
Label(aqi) ==
    CASE aqi = 1 -> "Good" [] aqi = 2 -> "Fair" [] aqi = 3 -> "Moderate"
      [] aqi = 4 -> "Poor" [] aqi = 5 -> "Very Poor" [] OTHER -> ""

\* C20: every snapshot and every forecast entry an operation returns has an
\* aqi from 1 to 5, and the description the snapshot carries or the tool
\* function reports for it is the label of that value.
C20_AqiBoundedAndLabelled ==
    /\ \A i \in 1..Len(air_result) : air_result[i].aqi \in 1..5
    /\ \A i \in 1..Len(air_result) :
          "aqi_description" \in DOMAIN air_result[i] =>
              air_result[i].aqi_description = Label(air_result[i].aqi)
    /\ \A i \in 1..Len(air_output) :
          /\ air_output[i].aqi = air_result[i].aqi
          /\ air_output[i].aqi_description = Label(air_output[i].aqi)

\* C21: search_by_category with a limit N >= 0 returns at most N records,
\* each of the requested category and within the radius, nearest first;
\* with min_rating every record is rated and rated at least that, and with
\* max_price_level no record has a higher price level (records without one
\* are kept).
C21_CategoryFiltered ==
    (poi_call.op = "search_by_category" /\ poi_call.limit >= 0) =>
        /\ Len(poi_results) <= poi_call.limit
        /\ \A i \in 1..Len(poi_results) :
              /\ poi_results[i].category = poi_call.category
              /\ poi_results[i].distance_meters <= poi_call.radius_meters
              /\ poi_call.min_rating # None =>
                    /\ poi_results[i].rating # None
                    /\ poi_results[i].rating >= poi_call.min_rating
              /\ poi_call.max_price_level # None =>
                    \/ poi_results[i].price_level = None
                    \/ poi_results[i].price_level <= poi_call.max_price_level
        /\ \A i \in 1..(Len(poi_results) - 1) :
              poi_results[i].distance_meters <= poi_results[i + 1].distance_meters

\* C23: for the centre, category and limit of a search_nearby call, a
\* larger radius returns at least as many records, and every record the
\* call returned is also returned for the larger radius.
C23_RadiusMonotone ==
    poi_call.op = "search_nearby" =>
        \A r2 \in {r \in Radii : r >= poi_call.radius_meters} :
            \E larger \in {search_nearby(poi_call.latitude, poi_call.longitude, r2,
                                         poi_call.category, poi_call.limit)} :
                /\ Len(poi_results) <= Len(larger)
                /\ \A i \in 1..Len(poi_results) :
                      \E j \in 1..Len(larger) : larger[j] = poi_results[i]

\* C28: queries never modify the POI database: every stored record keeps
\* distance_meters unset and its other fields, and a returned record carries
\* a distance only when the query was a search given a reference point.
C28_DatabaseUnchanged ==
    /\ database = mock_pois
    /\ \A k \in 1..Len(database) : database[k].distance_meters = None
    /\ \A i \in 1..Len(poi_results) :
          poi_results[i].distance_meters # None =>
              /\ poi_call.op \in {"search_nearby", "search_text", "search_by_category"}
              /\ poi_call.latitude # None
              /\ poi_call.longitude # None

\* a search with a centre has returned a measured copy of a record whose
\* stored original is still unmeasured
C28_Witness ==
    /\ poi_call.op = "search_text"
    /\ poi_call.latitude # None
    /\ poi_results # <<>>
    /\ poi_results[1].distance_meters # None
    /\ database[DbIndex(poi_results[1])].distance_meters = None

\* C22: get_current_weather and get_current_air_quality called with no
\* location and without both coordinates raise ValueError and send no HTTP
\* request; their tool functions let the error through after closing the
\* client.
C22_MissingArgumentsRaise ==
    (/\ wx_call.op \in {"get_current_weather", "get_current_air_quality"}
     /\ wx_pc \notin {"idle", "entered"}
     /\ ~given(wx_call.location)
     /\ (wx_call.latitude = None \/ wx_call.longitude = None)) =>
        /\ wx_raised = MissingLocation
        /\ wx_requests = <<>>
        /\ wx_pc \in {"close", "left"}
        /\ (wx_pc = "left" /\ wx_call.tool) => wx_session = "none"

\* the get_current_weather tool was called with a latitude only and has let
\* the error through
C22_Witness ==
    /\ wx_call.op = "get_current_weather"
    /\ wx_call.tool
    /\ wx_call.location = NoLocation
    /\ wx_call.latitude # None
    /\ wx_call.longitude = None
    /\ wx_pc = "left"
    /\ wx_raised.type = "ValueError"
    /\ wx_session = "none"

\* C29: get_current_air_quality and get_air_quality_forecast given both a
\* latitude and a longitude send no geocoding request, and the request to
\* the air-pollution endpoint carries the coordinates given, with or
\* without a location name.
C29_CoordinatesNotGeocoded ==
    (/\ wx_call.op \in {"get_current_air_quality", "get_air_quality_forecast"}
     /\ wx_call.latitude # None
     /\ wx_call.longitude # None) =>
        \A i \in 1..Len(wx_requests) :
            /\ wx_requests[i].endpoint # "geo/1.0/direct"
            /\ wx_requests[i].lat = wx_call.latitude
            /\ wx_requests[i].lon = wx_call.longitude

\* C24: WeatherServicesAgent.process_query returns a string and raises
\* nothing, whatever the tool-selection completion, the tool and the
\* formatting completion do.
C24_ProcessQueryTotal ==
    (agent = "weather" /\ pc = "return") =>
        /\ raised = NoError
        /\ ~response.none

\* the recovery scan of process_query has run on the completion
Scanned ==
    /\ Parsed
    /\ ~json_loads(llm_response.text).ok

\* the position of the first '{' of a text, 0 when it has none
FirstOpen(text) ==
    IF \E i \in 1..Len(text) : BraceOf(text[i]) = "{"
    THEN CHOOSE i \in 1..Len(text) :
            /\ BraceOf(text[i]) = "{"
            /\ \A k \in 1..(i - 1) : BraceOf(text[k]) # "{"
    ELSE 0

\* the '{' less the '}' among the first i characters of a text
Count(text, i) ==
    Cardinality({k \in 1..i : BraceOf(text[k]) = "{"})
        - Cardinality({k \in 1..i : BraceOf(text[k]) = "}"})

\* the ends of the candidate substrings that parse: each a '}' after the
\* first '{' at which the count is back to zero
Accepted(text) ==
    UNION { {i \in (first + 1)..Len(text) :
                /\ BraceOf(text[i]) = "}"
                /\ Count(text, i) = 0
                /\ slice_loads(text, first, i).ok}
          : first \in {FirstOpen(text)} \ {0} }

\* process_query left by the parse failure: the rephrase message, no tool
ParseFailure ==
    /\ pc = "return"
    /\ tool_name = NoneVal
    /\ invocations = <<>>
    /\ trace = <<"llm">>
    /\ response = Content(RephraseMsg)

\* the decision object that process_query went on with is the value v
ScanResult(v) ==
    \E d \in {lookup_tool(v)} :
        /\ tool_name = d.tool_name
        /\ parameters = d.parameters
        /\ ~ParseFailure

\* the completion is a good decision with commentary before it that holds
\* a '}' with no '{' before it
StrayCloseBefore(text) ==
    \E c \in GoodDecisions, p \in ProseRuns, q \in ProseRuns :
        /\ text = p \o c \o q
        /\ \E k \in 1..Len(p) : Count(p, k) < 0

\* C25 as amended: every candidate of the recovery scan starts at the first
\* '{' and ends at a '}' where the running count of all braces, those
\* inside strings included, is zero; the first candidate that parses is
\* the decision; when none parses, so when the first '{' begins no
\* parseable object, the outcome is the parse failure.
C25_ScanFromFirstBrace ==
    Scanned =>
        \E ends \in {Accepted(llm_response.text)} :
            IF ends = {}
            THEN ParseFailure
            ELSE \E i \in ends :
                    /\ \A j \in ends : i <= j
                    /\ ScanResult(slice_loads(llm_response.text,
                                              FirstOpen(llm_response.text), i).val)

\* the scan went past a first candidate that did not parse and accepted a
\* later one that starts at the same '{'
C25_Witness ==
    /\ Scanned
    /\ Accepted(llm_response.text) # {}
    /\ \E i \in 1..Len(llm_response.text) :
          /\ i > FirstOpen(llm_response.text)
          /\ BraceOf(llm_response.text[i]) = "}"
          /\ Count(llm_response.text, i) = 0
          /\ i \notin Accepted(llm_response.text)
          /\ \A j \in Accepted(llm_response.text) : i < j
    /\ pc = "return"
    /\ response = Content(UnknownToolMsg(StrVal("a}b")))

\* C25 as stated: as above, and a completion with an unmatched '}' before
\* the decision object ends in the parse failure.
C25_StrayCloseFails ==
    /\ C25_ScanFromFirstBrace
    /\ (Scanned /\ StrayCloseBefore(llm_response.text)) => ParseFailure

\* C26: run_with_manual_tools terminates whatever the model answers: it
\* makes at most 10 rounds of tool execution and sends at most 11 messages,
\* and it leaves the loop, sending nothing more, at the first response
\* that holds no function call.
C26_TerminatesWithinTenRounds ==
    /\ [](/\ iteration <= max_iterations
          /\ messages_sent <= max_iterations + 1
          /\ gm_pc \in {"return", "returned", "raised"} =>
                (function_calls = <<>> \/ messages_sent = max_iterations + 1))
    /\ [][(gm_pc = "loop" /\ function_calls = <<>>) =>
             (gm_pc' = "return" /\ messages_sent' = messages_sent)]_vars
    /\ <>(gm_pc \in {"returned", "raised"})

\* the model asked for tools in each of ten rounds and then answered in text
C26_Witness ==
    /\ gm_pc = "returned"
    /\ iteration = max_iterations
    /\ messages_sent = max_iterations + 1

\* C27: each round sends one function response per function call asked for,
\* in the same order and under the same name, after at most one tool call
\* each; a tool that raises gives an error response and the loop goes on;
\* the 'Function ... not found' response is sent exactly for a name that
\* no tool of the list bears.
C27_OneResponsePerCall ==
    /\ Len(function_responses) = Len(requested)
    /\ \A k \in 1..Len(requested) :
          /\ function_responses[k].name = requested[k].name
          /\ function_responses[k].executed <= 1
          /\ requested[k].does = "raises" =>
                /\ function_responses[k].result.error
                /\ function_responses[k].result # NotFound(requested[k].name)
                /\ gm_pc = "send"
          /\ function_responses[k].result = NotFound(requested[k].name)
                <=> (\A t \in 1..Len(tool_names) : tool_names[t] # requested[k].name)

\* C30: in interactive_session an exception of input() other than a
\* keyboard interrupt, end of input for one, is reported and the loop
\* prompts again; a blank line is skipped without a call of process_query;
\* so once the input stream is exhausted the session does not end, unless
\* it is interrupted from the keyboard.
C30_EndOfInputKeepsLoop ==
    /\ last_event = "read_error" => (session_pc = "input" /\ ~session_raised)
    /\ last_event = "blank" =>
          (session_pc = "input" /\ pc = "idle" /\ trace = <<>> /\ invocations = <<>>)
    /\ (stdin = "exhausted" /\ session_pc = "ended") =>
          last_event = "keyboard_interrupt"

\* the stream has ended after a query was answered, and the loop is at the
\* prompt again
C30_Witness ==
    /\ stdin = "exhausted"
    /\ last_event = "read_error"
    /\ session_pc = "input"
    /\ user_input # <<>>

====
